---- MODULE Spec2Model ----
(***************************************************************************)
(* Model of the 4-bit blockwise quantization block                         *)
(* (contrib_ops/cpu/quantization/blockwise_quant_block.h) and of the QNN   *)
(* quantization-parameter helpers (core/providers/qnn/builder/qnn_utils.cc)*)
(*                                                                         *)
(* Floating-point values of the block are modelled as exact rationals     *)
(* <<n, d>> in lowest terms with d > 0; a denominator of 0 marks a         *)
(* non-finite value (<<1,0>> = +inf, <<-1,0>> = -inf, <<0,0>> = NaN).  The *)
(* element type T of the block is float, so static_cast<float> and         *)
(* static_cast<T> keep the value.  The floats of the QNN helpers are       *)
(* binary32 values <<m, e>> = m * 2^e with every operation rounded to      *)
(* nearest, ties to even.                                                  *)
(*                                                                         *)
(* Spec:        one block quantized and dequantized                        *)
(* SpecQnn:     calls of GetQminQmax, GetQuantParams, Quantize, Dequantize *)
(* SpecThreads: two threads, each on its own block, interleaved            *)
(* SpecBuild:   building a program for given bits and block_size           *)
(***************************************************************************)
EXTENDS Integers, Sequences, FiniteSets, TLC

\* ------------------------------------------------------------------ bounds
\* source values are the integers -MaxVal .. MaxVal
MaxVal == 1
\* the rows of the source matrix repeat with this period
SrcPeriod == 3
\* largest row count K of the source matrix
MaxK == 11
\* largest column count (stride) N of the source matrix
MaxN == 2
\* the range ends handed to GetQuantParams are n * 0.00005 and n, |n| <= MaxRange
MaxRange == 2
\* the places of storage a block object of the widths 3..7 can occupy
MaxBlocks == 2
\* the device ids handed to the allocator functions are 0..MaxDeviceId
MaxDeviceId == 1

\* template parameter block_size of BlockwiseQuantBlock<T, block_size, 4>
block_size == 8

\* ------------------------------------------------------------- float model
RECURSIVE GCD(_, _)
GCD(a, b) == IF b = 0 THEN a ELSE GCD(b, a % b)

Abs(n) == IF n < 0 THEN -n ELSE n
Sgn(n) == IF n < 0 THEN -1 ELSE IF n > 0 THEN 1 ELSE 0

\* the float n/d (d may be negative or zero on entry)
Frac(n, d) ==
    IF d = 0 THEN <<Sgn(n), 0>>
    ELSE LET g == GCD(Abs(n), Abs(d))
             s == IF d < 0 THEN -1 ELSE 1
         IN  <<(s * n) \div g, (s * d) \div g>>

FInt(n) == <<n, 1>>
Zero == FInt(0)
NaN == <<0, 0>>
IsFinite(x) == x[2] # 0
IsNaN(x) == x = NaN

FNeg(x) == <<-x[1], x[2]>>

FAdd(x, y) ==
    IF IsFinite(x) /\ IsFinite(y)
    THEN LET g == GCD(x[2], y[2])
         IN  Frac(x[1] * (y[2] \div g) + y[1] * (x[2] \div g), (x[2] \div g) * y[2])
    ELSE IF IsNaN(x) \/ IsNaN(y) THEN NaN
    ELSE IF ~IsFinite(x) /\ ~IsFinite(y) THEN (IF x = y THEN x ELSE NaN)
    ELSE IF IsFinite(x) THEN y ELSE x

FSub(x, y) == FAdd(x, FNeg(y))

FMul(x, y) ==
    IF IsFinite(x) /\ IsFinite(y)
    THEN LET g1 == GCD(Abs(x[1]), y[2])
             g2 == GCD(Abs(y[1]), x[2])
         IN  Frac((x[1] \div g1) * (y[1] \div g2), (x[2] \div g2) * (y[2] \div g1))
    ELSE IF IsNaN(x) \/ IsNaN(y) THEN NaN
    ELSE <<Sgn(x[1]) * Sgn(y[1]), 0>>

FDiv(x, y) ==
    IF IsFinite(x) /\ IsFinite(y)
    THEN IF y[1] = 0 THEN <<Sgn(x[1]), 0>>
         ELSE FMul(x, <<Sgn(y[1]) * y[2], Abs(y[1])>>)
    ELSE IF IsNaN(x) \/ IsNaN(y) THEN NaN
    ELSE IF IsFinite(y) THEN <<Sgn(x[1]) * (IF y[1] < 0 THEN -1 ELSE 1), 0>>
    ELSE IF IsFinite(x) THEN Zero ELSE NaN

\* x < y; every comparison with NaN is false
FLt(x, y) ==
    IF IsNaN(x) \/ IsNaN(y) THEN FALSE
    ELSE IF IsFinite(x) /\ IsFinite(y)
         THEN LET g == GCD(x[2], y[2])
              IN  x[1] * (y[2] \div g) < y[1] * (x[2] \div g)
    ELSE IF IsFinite(x) THEN y[1] > 0
    ELSE IF IsFinite(y) THEN x[1] < 0
    ELSE x[1] < y[1]

FLe(x, y) == ~IsNaN(x) /\ ~IsNaN(y) /\ ~FLt(y, x)

\* std::min(a, b) == (b < a) ? b : a ; std::max(a, b) == (a < b) ? b : a
StdMin(a, b) == IF FLt(b, a) THEN b ELSE a
StdMax(a, b) == IF FLt(a, b) THEN b ELSE a

FAbs(x) == <<Abs(x[1]), x[2]>>

\* roundf / std::round: nearest integer, halfway cases away from zero
RoundF(x) ==
    IF ~IsFinite(x) THEN x
    ELSE IF x[1] >= 0 THEN FInt((2 * x[1] + x[2]) \div (2 * x[2]))
    ELSE FInt(-((2 * (-x[1]) + x[2]) \div (2 * x[2])))

\* (uint8_t) of a float already inside [0, 255]: the fraction is discarded
ToUint8(x) == IF ~IsFinite(x) THEN 0 ELSE (x[1] \div x[2]) % 256

\* ------------------------------------------------------------ bit helpers
RECURSIVE BitOr(_, _)
BitOr(a, b) ==
    IF a = 0 THEN b
    ELSE IF b = 0 THEN a
    ELSE (IF (a % 2 = 1) \/ (b % 2 = 1) THEN 1 ELSE 0) + 2 * BitOr(a \div 2, b \div 2)

\* main_blob[i / 2] & 0xF
LowNibble(byte) == byte % 16
\* mutant: the odd element is read from the low nibble too
HighNibble_NoShift(byte) == byte % 16

\* main_blob[i / 2] >> 4
HighNibble(byte) == byte \div 16

\* ------------------------------------------ binary32 floats of qnn_utils
\* The range ends and the scales of the QNN helpers are far from integers,
\* so their float arithmetic is modelled with its rounding: a float is
\* <<m, e>>, the value m * 2^e, with m odd and |m| < 2^24 (zero is <<0, 0>>),
\* and every operation returns the float nearest to the exact result, ties
\* to the even mantissa.  Infinities, NaN and the ends of the exponent range
\* are not modelled: the values used stay far from them.

\* the pairs <<m, e>>
F32 == Int \X Int

\* std::numeric_limits<int32_t>::max() and ::min()
IntMax == 2147483647
IntMin == -IntMax - 1

\* number of bits of n >= 0
RECURSIVE BitLen(_)
BitLen(n) == IF n = 0 THEN 0 ELSE 1 + BitLen(n \div 2)

\* m * 2^e with the trailing zero bits of m moved into the exponent
RECURSIVE B32Norm(_, _)
B32Norm(m, e) ==
    IF m = 0 THEN <<0, 0>>
    ELSE IF m % 2 = 0 THEN B32Norm(m \div 2, e + 1)
    ELSE <<m, e>>

\* the float nearest to s * (n * 2^e + t), n >= 0, where 0 < t < 2^e when
\* tail holds and t = 0 otherwise; with a tail n has at least 26 bits
B32RoundOf[s \in Int, n \in Int, e \in Int, tail \in BOOLEAN] ==
    LET sh == BitLen(n) - 24
    IN  IF sh <= 0 THEN B32Norm(s * n, e)
        ELSE LET q    == n \div (2 ^ sh)
                 r    == n % (2 ^ sh)
                 half == 2 ^ (sh - 1)
                 up   == r > half \/ (r = half /\ (tail \/ q % 2 = 1))
             IN  B32Norm(s * (IF up THEN q + 1 ELSE q), e + sh)
\* B32RoundOf with its arguments evaluated once
B32Round(s, n, e, tail) == B32RoundOf[s, n, e, tail]

\* static_cast<float>(n) of an int32_t
B32FromInt(n) ==
    IF n = IntMin THEN <<-1, 31>> ELSE B32Round(Sgn(n), Abs(n), 0, FALSE)

B32Zero == <<0, 0>>
B32Neg(x) == <<-x[1], x[2]>>
B32Abs(x) == <<Abs(x[1]), x[2]>>

\* x + y in float
B32AddOf[x \in F32, y \in F32] ==
    IF x[1] = 0 THEN y
    ELSE IF y[1] = 0 THEN x
    ELSE LET a    == IF x[2] >= y[2] THEN x ELSE y
             b    == IF x[2] >= y[2] THEN y ELSE x
             diff == a[2] - b[2]
             room == 30 - BitLen(Abs(a[1]))
         IN  IF diff <= room
             THEN LET sum == a[1] * (2 ^ diff) + b[1]
                  IN  B32Round(Sgn(sum), Abs(sum), b[2], FALSE)
             ELSE LET sb   == diff - room
                      big  == Abs(a[1]) * (2 ^ room)
                      fl   == IF sb > 24 THEN 0 ELSE Abs(b[1]) \div (2 ^ sb)
                      same == Sgn(a[1]) = Sgn(b[1])
                      mag  == IF same THEN big + fl ELSE big - fl - 1
                  IN  B32Round(Sgn(a[1]), mag, a[2] - room, TRUE)
\* B32AddOf with its arguments evaluated once
B32Add(x, y) == B32AddOf[x, y]

\* x - y in float
B32Sub(x, y) == B32Add(x, B32Neg(y))

\* x < y
B32Lt(x, y) == B32Sub(x, y)[1] < 0
B32Le(x, y) == ~B32Lt(y, x)

\* std::min(a, b) == (b < a) ? b : a ; std::max(a, b) == (a < b) ? b : a
B32Min(a, b) == IF B32Lt(b, a) THEN b ELSE a
B32Max(a, b) == IF B32Lt(a, b) THEN b ELSE a

\* long division of r by d, r < d: quotient bits are appended to q until q has
\* 27 bits; <<q, remainder, number of bits appended>>
RECURSIVE DivLoop(_, _, _, _)
DivLoop(q, r, d, k) ==
    IF q >= 2 ^ 26 THEN <<q, r, k>>
    ELSE IF 2 * r >= d THEN DivLoop(2 * q + 1, 2 * r - d, d, k + 1)
    ELSE DivLoop(2 * q, 2 * r, d, k + 1)

\* x / y in float, y # 0
B32DivOf[x \in F32, y \in F32] ==
    IF x[1] = 0 THEN B32Zero
    ELSE LET n == Abs(x[1])
             d == Abs(y[1])
             l == DivLoop(n \div d, n % d, d, 0)
         IN  B32Round(Sgn(x[1]) * Sgn(y[1]), l[1], x[2] - y[2] - l[3], l[2] # 0)
\* B32DivOf with its arguments evaluated once
B32Div(x, y) == B32DivOf[x, y]

\* the float literal or input nearest to n / d
B32Frac(n, d) == B32Div(B32FromInt(n), B32FromInt(d))

\* std::round on a float: nearest integer, halfway cases away from zero
B32StdRoundOf[x \in F32] ==
    IF x[2] >= 0 THEN x
    ELSE IF -x[2] > 30 THEN B32Zero
    ELSE LET d == 2 ^ (-x[2])
             q == Abs(x[1]) \div d
             r == Abs(x[1]) % d
         IN  B32FromInt(Sgn(x[1]) * (IF 2 * r >= d THEN q + 1 ELSE q))
\* B32StdRoundOf with its argument evaluated once
B32StdRound(x) == B32StdRoundOf[x]

VARIABLES
    src,        \* the source matrix, row-major, N columns
    N,          \* column count of the source matrix (the stride passed to quant)
    main_blob,  \* the block's packed bytes
    blob_in,    \* main_blob as it was when the last quant call was entered
    scale,      \* the caller's scale slot of this block
    zp,         \* the caller's zero-point slot of this block
    dst,        \* the destination buffer handed to dequant
    dst_in,     \* dst as it was when dequant was entered
    k_idx, K,   \* arguments of the last call
    col,        \* column the src pointer of the last quant call points into
    loc,        \* locals of the last quant call
    pc,         \* "fresh", "quantized", "dequantized"
    mode,       \* overload of the last quant call: "none", "zp", "sym"
    dmode,      \* overload of the last dequant call: "none", "zp", "default"
    qin,        \* arguments of the last GetQuantParams call
    qout,       \* the caller's scale and zero_point, and the Status returned
    qloc,       \* locals of the last GetQuantParams call
    qq,         \* arguments, locals and results of the last Quantize call
    qd,         \* arguments and result of the last Dequantize call
    qb,         \* arguments and results of the last GetQminQmax<int> call
    qpc,        \* "idle", "params", "quantized", "dequantized", "direct", "bounds"
    tblob,      \* main_blob of the block object each thread owns
    tscale,     \* each thread's scale slot
    tzp,        \* each thread's zero-point slot
    tdst,       \* each thread's destination range
    tloc,       \* the locals of the call each thread is in
    tpc,        \* each thread: "off", "ready", "packing", "quantized", "done"
    tmode,      \* the quant overload each thread called: "none", "zp", "sym"
    tmixed,     \* a thread has stepped while another was inside a call
    cfg,        \* template arguments bits and block_size of a program's block type
    bpc,        \* the program: "off", "written", "instantiated", "built", "rejected", "processed"
    berr,       \* why the build rejected it: "none", "static_assert", "no_definition"
    blocks,     \* block objects of the widths 3..7, by the storage they occupy
    gin,        \* arguments of the calls of GetQuantParams by one caller
    gout,       \* what each of these calls returned, in order
    gub,        \* what the build makes of an int32 conversion or negation that overflows
    akind,      \* the provider the program is built with: "cuda", "rocm" or "cann"
    amap,       \* id_to_allocator_map of its allocator function: the allocator per device id, 0 for none
    created,    \* how many allocators were created for each device id
    acall,      \* per thread: where its call of the allocator function stands
    overlapped  \* a call was entered while another was in progress

blockvars == <<src, N, main_blob, blob_in, scale, zp, dst, dst_in, k_idx, K, col, loc, pc, mode, dmode>>
qnnvars == <<qin, qout, qloc, qq, qd, qb, qpc>>
threadvars == <<tblob, tscale, tzp, tdst, tloc, tpc, tmode, tmixed>>
buildvars == <<cfg, bpc, berr>>
layoutvars == <<blocks>>
paramvars == <<gin, gout, gub>>
allocvars == <<akind, amap, created, acall, overlapped>>
othervars == <<layoutvars, paramvars, allocvars>>
vars == <<blockvars, qnnvars, threadvars, buildvars, othervars>>

\* ---------------------------------------------------- 4-bit block: quant
Min(a, b) == IF b < a THEN b ELSE a

\* int32_t klen = std::min(block_size, K - k_idx)
Klen(kidx, kK) == Min(block_size, kK - kidx)

\* mutant: the src pointer refers to column 0 of row kidx
SrcBase_FirstColumn(n, kidx, c) == kidx * n

\* the first element the src pointer of a call refers to: row kidx, column c
SrcBase(n, kidx, c) == kidx * n + c

\* the min/max loop of quant (with zp), from iteration kk on
RECURSIVE MinMaxLoop(_, _, _, _, _, _, _)
MinMaxLoop(m, base, n, klen, kk, min, max) ==
    IF kk >= klen THEN <<min, max>>
    ELSE LET v == m[base + n * kk]
         IN  MinMaxLoop(m, base, n, klen, kk + 1,
                        IF FLt(v, min) THEN v ELSE min,
                        IF FLt(max, v) THEN v ELSE max)

\* mutant: the division is not guarded
ReciprocalScale_Unguarded(sc) == FDiv(FInt(1), sc)

\* const float reciprocal_scale = scale ? 1.0f / scale : 0.0f
ReciprocalScale(sc) == IF sc # Zero THEN FDiv(FInt(1), sc) ELSE Zero

\* mutant: min / scale is not negated
ZeroPointFp_NoNegate(min, sc) == IF sc # Zero THEN FDiv(min, sc) ELSE min

\* zero_point_fp = min; if (scale != 0.0f) zero_point_fp = 0.f - min / scale
ZeroPointFp(min, sc) == IF sc # Zero THEN FSub(Zero, FDiv(min, sc)) ELSE min

\* the clamping of zero_point_fp into the uint8_t zp
ClampZp(zero_point_fp) ==
    IF FLt(zero_point_fp, Zero) THEN 0
    ELSE IF FLt(FInt(15), zero_point_fp) THEN 15
    ELSE ToUint8(RoundF(zero_point_fp))

\* mutant: the zero-point is not added before rounding
CodeZp_NoZeroPoint(v, reciprocal_scale, z) ==
    ToUint8(StdMin(FInt(15), StdMax(Zero, RoundF(FMul(v, reciprocal_scale)))))

\* (uint8_t)std::min(15.0f, std::max(0.0f, roundf(v * reciprocal_scale + zp)))
CodeZp(v, reciprocal_scale, z) ==
    ToUint8(StdMin(FInt(15), StdMax(Zero, RoundF(FAdd(FMul(v, reciprocal_scale), FInt(z))))))

\* vi0 | (vi1 << 4), stored into a uint8_t
PackByte(vi0, vi1) == BitOr(vi0, vi1 * 16) % 256

\* mutant: the odd tail is padded with the last valid value, not with 0
RECURSIVE PackLoopZp_PadWithLast(_, _, _, _, _, _, _, _)
PackLoopZp_PadWithLast(blob, m, base, n, klen, reciprocal_scale, z, kk) ==
    IF kk >= klen THEN blob
    ELSE LET v0  == m[base + n * kk]
             vi0 == CodeZp(v0, reciprocal_scale, z)
             v1  == IF kk + 1 < klen THEN m[base + n * (kk + 1)] ELSE v0
             vi1 == CodeZp(v1, reciprocal_scale, z)
         IN  PackLoopZp_PadWithLast([blob EXCEPT ![kk \div 2] = PackByte(vi0, vi1)],
                                    m, base, n, klen, reciprocal_scale, z, kk + 2)

\* mutant: the codes are or-ed into the byte the buffer holds
RECURSIVE PackLoopZp_OrInto(_, _, _, _, _, _, _, _)
PackLoopZp_OrInto(blob, m, base, n, klen, reciprocal_scale, z, kk) ==
    IF kk >= klen THEN blob
    ELSE LET v0  == m[base + n * kk]
             vi0 == CodeZp(v0, reciprocal_scale, z)
             v1  == IF kk + 1 < klen THEN m[base + n * (kk + 1)] ELSE Zero
             vi1 == CodeZp(v1, reciprocal_scale, z)
         IN  PackLoopZp_OrInto([blob EXCEPT ![kk \div 2] = BitOr(@, PackByte(vi0, vi1))],
                               m, base, n, klen, reciprocal_scale, z, kk + 2)

\* the packing loop of quant (with zp), from iteration kk on
RECURSIVE PackLoopZp(_, _, _, _, _, _, _, _)
PackLoopZp(blob, m, base, n, klen, reciprocal_scale, z, kk) ==
    IF kk >= klen THEN blob
    ELSE LET v0  == m[base + n * kk]
             vi0 == CodeZp(v0, reciprocal_scale, z)
             v1  == IF kk + 1 < klen THEN m[base + n * (kk + 1)] ELSE Zero
             vi1 == CodeZp(v1, reciprocal_scale, z)
         IN  PackLoopZp([blob EXCEPT ![kk \div 2] = PackByte(vi0, vi1)],
                        m, base, n, klen, reciprocal_scale, z, kk + 2)

\* quant(src, scale_block, zp, k_idx, K, N): the locals and the three outputs
QuantZpResult(blob, m, base, n, kidx, kK) ==
    LET klen  == Klen(kidx, kK)
        mm    == MinMaxLoop(m, base, n, klen, 0, m[base], m[base])
        min   == StdMin(mm[1], Zero)
        max   == StdMax(mm[2], Zero)
        sc    == FDiv(FSub(max, min), FInt(15))
        rs    == ReciprocalScale(sc)
        zfp   == ZeroPointFp(min, sc)
        z     == ClampZp(zfp)
    IN  [klen |-> klen, min |-> min, max |-> max, amax |-> Zero,
         scale |-> sc, reciprocal_scale |-> rs, zero_point_fp |-> zfp, zp |-> z,
         main_blob |-> PackLoopZp(blob, m, base, n, klen, rs, z, 0)]

\* mutant: amax <= fabsf(v), so the last element of largest magnitude wins
RECURSIVE AmaxLoop_LastWins(_, _, _, _, _, _, _)
AmaxLoop_LastWins(m, base, n, klen, kk, amax, max) ==
    IF kk >= klen THEN <<amax, max>>
    ELSE LET v == m[base + n * kk]
         IN  IF FLe(amax, FAbs(v))
             THEN AmaxLoop_LastWins(m, base, n, klen, kk + 1, FAbs(v), v)
             ELSE AmaxLoop_LastWins(m, base, n, klen, kk + 1, amax, max)

\* the amax loop of quant (symmetric), from iteration kk on
RECURSIVE AmaxLoop(_, _, _, _, _, _, _)
AmaxLoop(m, base, n, klen, kk, amax, max) ==
    IF kk >= klen THEN <<amax, max>>
    ELSE LET v == m[base + n * kk]
         IN  IF FLt(amax, FAbs(v))
             THEN AmaxLoop(m, base, n, klen, kk + 1, FAbs(v), v)
             ELSE AmaxLoop(m, base, n, klen, kk + 1, amax, max)

\* mutant: the scale takes the sign of max
SymScale_Positive(max) == FDiv(max, FInt(8))

\* const float scale = max / (-8.f)
SymScale(max) == FDiv(max, FInt(-8))

\* mutant: the midpoint 8 is not added, only the rounding half
CodeSym_NoMidpoint(v) == ToUint8(StdMin(FInt(15), StdMax(Zero, FAdd(v, Frac(1, 2)))))

\* mutant: the saturated sum is rounded to the nearest integer
CodeSym_Rounded(v) ==
    ToUint8(RoundF(StdMin(FInt(15), StdMax(Zero, FAdd(v, Frac(17, 2))))))

\* (uint8_t)std::min(15.0f, std::max(0.0f, v + 8.5f))
CodeSym(v) == ToUint8(StdMin(FInt(15), StdMax(Zero, FAdd(v, Frac(17, 2)))))

\* the packing loop of quant (symmetric), from iteration kk on
RECURSIVE PackLoopSym(_, _, _, _, _, _, _)
PackLoopSym(blob, m, base, n, klen, reciprocal_scale, kk) ==
    IF kk >= klen THEN blob
    ELSE LET v0  == FMul(m[base + n * kk], reciprocal_scale)
             vi0 == CodeSym(v0)
             v1  == IF kk + 1 < klen THEN FMul(m[base + n * (kk + 1)], reciprocal_scale)
                    ELSE Zero
             vi1 == CodeSym(v1)
         IN  PackLoopSym([blob EXCEPT ![kk \div 2] = PackByte(vi0, vi1)],
                         m, base, n, klen, reciprocal_scale, kk + 2)

\* quant(src, scale_block, k_idx, K, N): the locals and the two outputs
QuantSymResult(blob, m, base, n, kidx, kK) ==
    LET klen == Klen(kidx, kK)
        am   == AmaxLoop(m, base, n, klen, 0, Zero, Zero)
        sc   == SymScale(am[2])
        rs   == ReciprocalScale(sc)
    IN  [klen |-> klen, min |-> Zero, max |-> am[2], amax |-> am[1],
         scale |-> sc, reciprocal_scale |-> rs, zero_point_fp |-> Zero, zp |-> 0,
         main_blob |-> PackLoopSym(blob, m, base, n, klen, rs, 0)]

\* -------------------------------------------------- 4-bit block: dequant
\* the loop of dequant(dst, scale, zp, k_idx, K), from iteration i on
RECURSIVE DequantLoop(_, _, _, _, _, _, _)
DequantLoop(d, blob, sc, z, kidx, kK, i) ==
    IF i >= block_size THEN d
    ELSE LET zp_t == FInt(z)
             d0   == IF kidx + i < kK
                     THEN [d EXCEPT ![i] =
                              FMul(sc, FSub(FInt(LowNibble(blob[i \div 2])), zp_t))]
                     ELSE d
             d1   == IF kidx + i + 1 < kK
                     THEN [d0 EXCEPT ![i + 1] =
                              FMul(sc, FSub(FInt(HighNibble(blob[i \div 2])), zp_t))]
                     ELSE d0
         IN  DequantLoop(d1, blob, sc, z, kidx, kK, i + 2)

\* mutant: the mask compares i, not k_idx + i, with K
Dequant_NoBlockOffset(d, blob, sc, z, kidx, kK) == DequantLoop(d, blob, sc, z, 0, kK, 0)

\* dequant(dst, scale, zp, k_idx, K)
Dequant(d, blob, sc, z, kidx, kK) == DequantLoop(d, blob, sc, z, kidx, kK, 0)

\* mutant: the default zero-point is 0
DequantDefault_ZeroZp(d, blob, sc, kidx, kK) == Dequant(d, blob, sc, 0, kidx, kK)

\* dequant(dst, scale, k_idx, K): constexpr uint8_t zp = 8
DequantDefault(d, blob, sc, kidx, kK) == Dequant(d, blob, sc, 8, kidx, kK)

\* ------------------------------------------------------------- the inputs
Vals == {FInt(v) : v \in (-MaxVal)..MaxVal}

\* a source matrix of MaxK rows and n columns whose rows repeat the pattern
\* pat, each column starting one step further into it
Matrix(pat, n) ==
    [i \in 0..(MaxK * n - 1) |-> pat[((i \div n) + (i % n)) % SrcPeriod]]

\* contents an uninitialized main_blob may hold
GarbageBytes == {165}
\* the destination as the caller hands it to dequant: a distinct value at
\* every position, none of which a dequantized value can take
DstBefore == [i \in 0..(block_size - 1) |-> FInt(100 + i)]

\* the strides N the source matrix is given with
Strides == {1, MaxN}
\* the column a quant call is pointed at: the last one
Columns(n) == {n - 1}

\* k_idx of the blocks of a column of kK rows
BlockStarts(kK) == {k \in 0..(kK - 1) : k % block_size = 0}

NoLocals ==
    [klen |-> 0, min |-> Zero, max |-> Zero, amax |-> Zero, scale |-> Zero,
     reciprocal_scale |-> Zero, zero_point_fp |-> Zero]

QnnIdle ==
    /\ qin = [rmin |-> B32Zero, rmax |-> B32Zero, qnn_data_type |-> "none", symmetric |-> FALSE]
    /\ qout = [scale |-> B32FromInt(-1), zero_point |-> 77, status |-> "none"]
    /\ qloc = [cmin |-> B32Zero, cmax |-> B32Zero, rmin |-> B32Zero, rmax |-> B32Zero,
               qmin |-> B32Zero, qmax |-> B32Zero, initial_zero_point |-> B32Zero]
    /\ qq = [double_value |-> B32Zero, scale |-> B32Zero, zero_point |-> 0,
             qnn_data_type |-> "none", quant_value_in |-> 0, quant_value |-> 0,
             status |-> "none", qmin |-> 0, qmax |-> 0, overflow |-> FALSE, cast |-> 0]
    /\ qd = [offset |-> 0, scale |-> B32Zero, quant_value |-> 0, sum |-> 0]
    /\ qb = [qnn_data_type |-> "none", qmin_in |-> 0, qmax_in |-> 0,
             qmin |-> 0, qmax |-> 0, status |-> "none"]
    /\ qpc = "idle"

\* the threads of the concurrent runs
Threads == {1, 2}

NoThreadLocals == [klen |-> 0, reciprocal_scale |-> Zero, kk |-> 0, i |-> 0]

\* no thread is running
ThreadsOff ==
    /\ tblob = [t \in Threads |-> [j \in 0..(block_size \div 2 - 1) |-> 0]]
    /\ tscale = [t \in Threads |-> Zero]
    /\ tzp = [t \in Threads |-> 0]
    /\ tdst = [t \in Threads |-> [i \in 0..(block_size - 1) |-> Zero]]
    /\ tloc = [t \in Threads |-> NoThreadLocals]
    /\ tpc = [t \in Threads |-> "off"]
    /\ tmode = [t \in Threads |-> "none"]
    /\ tmixed = FALSE

\* no program is being built
\* no block object of the bit-plane layouts exists
NoBlock == [bits |-> 0, block_size |-> 0, size |-> 0, planes |-> <<>>]
LayoutOff == blocks = [s \in 1..MaxBlocks |-> NoBlock]
\* no call of GetQuantParams by the caller that calls twice
ParamsOff ==
    /\ gin = [rmin |-> <<0, 0>>, rmax |-> <<0, 0>>, qnn_data_type |-> "none", symmetric |-> FALSE]
    /\ gout = <<>>
    /\ gub = [cast |-> 0, neg |-> 0]
\* no call of an allocator function is made
NoCall == [pc |-> "idle", id |-> 0, hit |-> 0, alloc |-> 0, ret |-> 0]
AllocOff ==
    /\ akind = "none"
    /\ amap = [d \in 0..MaxDeviceId |-> 0]
    /\ created = [d \in 0..MaxDeviceId |-> 0]
    /\ acall = [t \in Threads |-> NoCall]
    /\ overlapped = FALSE
OthersOff == LayoutOff /\ ParamsOff /\ AllocOff

BuildOff ==
    /\ cfg = [bits |-> 4, block_size |-> block_size]
    /\ bpc = "off"
    /\ berr = "none"

Init ==
    /\ OthersOff
    /\ QnnIdle
    /\ ThreadsOff
    /\ BuildOff
    /\ N \in Strides
    /\ \E pat \in [0..(SrcPeriod - 1) -> Vals] : src = Matrix(pat, N)
    /\ \E g \in GarbageBytes : main_blob = [j \in 0..(block_size \div 2 - 1) |-> g]
    /\ blob_in = main_blob
    /\ scale = Zero
    /\ zp = 0
    /\ dst = [i \in 0..(block_size - 1) |-> Zero]
    /\ dst_in = dst
    /\ k_idx = 0
    /\ K = 0
    /\ col = 0
    /\ loc = NoLocals
    /\ pc = "fresh"
    /\ mode = "none"
    /\ dmode = "none"

\* a call of quant(src, scale, zp, k_idx, K, N) on the block
QuantZp(kidx, kK, c) ==
    /\ pc = "fresh"
    /\ kidx < kK
    /\ LET r == QuantZpResult(main_blob, src, SrcBase(N, kidx, c), N, kidx, kK)
       IN  /\ main_blob' = r.main_blob
           /\ blob_in' = main_blob
           /\ scale' = r.scale
           /\ zp' = r.zp
           /\ loc' = [f \in DOMAIN NoLocals |-> r[f]]
    /\ k_idx' = kidx
    /\ K' = kK
    /\ col' = c
    /\ pc' = "quantized"
    /\ mode' = "zp"
    /\ UNCHANGED <<src, N, dst, dst_in, dmode, qnnvars, threadvars, buildvars, othervars>>

\* a call of quant(src, scale, k_idx, K, N) on the block
QuantSym(kidx, kK, c) ==
    /\ pc = "fresh"
    /\ kidx < kK
    /\ LET r == QuantSymResult(main_blob, src, SrcBase(N, kidx, c), N, kidx, kK)
       IN  /\ main_blob' = r.main_blob
           /\ blob_in' = main_blob
           /\ scale' = r.scale
           /\ loc' = [f \in DOMAIN NoLocals |-> r[f]]
    /\ k_idx' = kidx
    /\ K' = kK
    /\ col' = c
    /\ pc' = "quantized"
    /\ mode' = "sym"
    /\ UNCHANGED <<src, N, zp, dst, dst_in, dmode, qnnvars, threadvars, buildvars, othervars>>

\* a call of dequant(dst, scale, zp, k_idx, K) with the scale and zp quant wrote
DequantZp ==
    /\ pc = "quantized"
    /\ mode = "zp"
    /\ dst_in' = DstBefore
    /\ dst' = Dequant(dst_in', main_blob, scale, zp, k_idx, K)
    /\ pc' = "dequantized"
    /\ dmode' = "zp"
    /\ UNCHANGED <<src, N, main_blob, blob_in, scale, zp, k_idx, K, col, loc, mode, qnnvars, threadvars, buildvars, othervars>>

\* a call of dequant(dst, scale, k_idx, K) with the scale symmetric quant wrote
DequantNoZp ==
    /\ pc = "quantized"
    /\ mode = "sym"
    /\ dst_in' = DstBefore
    /\ dst' = DequantDefault(dst_in', main_blob, scale, k_idx, K)
    /\ pc' = "dequantized"
    /\ dmode' = "default"
    /\ UNCHANGED <<src, N, main_blob, blob_in, scale, zp, k_idx, K, col, loc, mode, qnnvars, threadvars, buildvars, othervars>>

Next ==
    \/ \E kK \in 1..MaxK : \E kidx \in BlockStarts(kK) : \E c \in Columns(N) :
          QuantZp(kidx, kK, c)
    \/ \E kK \in 1..MaxK : \E kidx \in BlockStarts(kK) : \E c \in Columns(N) :
          QuantSym(kidx, kK, c)
    \/ DequantZp
    \/ DequantNoZp

Spec == Init /\ [][Next]_vars

\* ------------------------------------------- QNN quantization parameters
\* mutant: the range is not clamped to include 0
CheckMinMax_NoZeroClamp(rmin, rmax) ==
    <<rmin, B32Max(rmax, B32Add(rmin, B32Frac(1, 10000)))>>

\* mutant: the minimum span is added to the larger end whatever the span is
CheckMinMax_AlwaysWiden(rmin, rmax) ==
    <<B32Min(rmin, B32Zero),
      B32Max(B32Add(B32Max(rmax, rmin), B32Frac(1, 10000)), B32Zero)>>

\* mutant: the minimum span is not enforced
CheckMinMax_NoMinSpan(rmin, rmax) ==
    <<B32Min(rmin, B32Zero), B32Max(rmax, B32Zero)>>

\* std::pair<float, float> CheckMinMax(float rmin, float rmax)
CheckMinMax(rmin, rmax) ==
    LET rmax1 == B32Max(rmax, B32Add(rmin, B32Frac(1, 10000)))
        rmin2 == B32Min(rmin, B32Zero)
        rmax2 == B32Max(rmax1, B32Zero)
    IN  <<rmin2, rmax2>>

\* the data types GetQminQmax lists
QnnSupported ==
    {"QNN_DATATYPE_SFIXED_POINT_8", "QNN_DATATYPE_UFIXED_POINT_8",
     "QNN_DATATYPE_SFIXED_POINT_16", "QNN_DATATYPE_UFIXED_POINT_16",
     "QNN_DATATYPE_SFIXED_POINT_32"}

\* mutant: an unlisted type falls through to Status::OK()
GetQminQmax_NoError(qnn_data_type, qmin, qmax) ==
    IF qnn_data_type = "QNN_DATATYPE_SFIXED_POINT_8"
    THEN [status |-> "OK", qmin |-> -128, qmax |-> 127]
    ELSE IF qnn_data_type = "QNN_DATATYPE_UFIXED_POINT_8"
    THEN [status |-> "OK", qmin |-> 0, qmax |-> 255]
    ELSE IF qnn_data_type = "QNN_DATATYPE_SFIXED_POINT_16"
    THEN [status |-> "OK", qmin |-> -32768, qmax |-> 32767]
    ELSE IF qnn_data_type = "QNN_DATATYPE_UFIXED_POINT_16"
    THEN [status |-> "OK", qmin |-> 0, qmax |-> 65535]
    ELSE IF qnn_data_type = "QNN_DATATYPE_SFIXED_POINT_32"
    THEN [status |-> "OK", qmin |-> IntMin, qmax |-> IntMax]
    ELSE [status |-> "OK", qmin |-> qmin, qmax |-> qmax]

\* GetQminQmax: the Status and the (qmin, qmax) written, as integers (T
\* converts them); on an unsupported type the function returns before writing
\* either
GetQminQmax(qnn_data_type, qmin, qmax) ==
    IF qnn_data_type = "QNN_DATATYPE_SFIXED_POINT_8"
    THEN [status |-> "OK", qmin |-> -128, qmax |-> 127]
    ELSE IF qnn_data_type = "QNN_DATATYPE_UFIXED_POINT_8"
    THEN [status |-> "OK", qmin |-> 0, qmax |-> 255]
    ELSE IF qnn_data_type = "QNN_DATATYPE_SFIXED_POINT_16"
    THEN [status |-> "OK", qmin |-> -32768, qmax |-> 32767]
    ELSE IF qnn_data_type = "QNN_DATATYPE_UFIXED_POINT_16"
    THEN [status |-> "OK", qmin |-> 0, qmax |-> 65535]
    ELSE IF qnn_data_type = "QNN_DATATYPE_SFIXED_POINT_32"
    THEN [status |-> "OK", qmin |-> IntMin, qmax |-> IntMax]
    ELSE [status |-> "FAIL", qmin |-> qmin, qmax |-> qmax]

\* template <typename T> T Saturate(qmax, qmin, quant_value), T = float
Saturate(qmax, qmin, quant_value) ==
    IF B32Lt(qmax, quant_value) THEN qmax
    ELSE IF B32Lt(quant_value, qmin) THEN qmin
    ELSE quant_value

\* RoundHalfToEven: nearest integer, halfway cases to the even neighbour
RoundHalfToEven(x) ==
    IF x[2] >= 0 THEN x
    ELSE IF -x[2] > 30 THEN B32Zero
    ELSE LET d == 2 ^ (-x[2])
             q == Abs(x[1]) \div d
             r == Abs(x[1]) % d
             n == IF 2 * r < d THEN q
                  ELSE IF 2 * r > d THEN q + 1
                  ELSE IF q % 2 = 0 THEN q ELSE q + 1
         IN  B32FromInt(Sgn(x[1]) * n)

\* static_cast<int32_t> of a float holding an integer inside the int32 range
ToInt32(x) == x[1] * (2 ^ x[2])

\* mutant: the zero-point is not negated
Negate_Missing(zero_point) == zero_point

\* zero_point = 0 - zero_point
Negate(zero_point) == 0 - zero_point

\* mutant: the range is not made symmetric
RangeUsed_Asymmetric(c, symmetric) == c

\* GetQuantParams is written as a chain of steps, each handing its locals on
\* as arguments.
\* The range used: if (symmetric) { abs_max = std::max(abs(rmax), abs(rmin));
\* rmax = abs_max; rmin = -abs_max; }, c the pair CheckMinMax returned.
\* abs(rmax), abs(rmin) are taken as the float overload of abs.
RangeUsed(c, symmetric) ==
    IF symmetric
    THEN <<B32Neg(B32Max(B32Abs(c[2]), B32Abs(c[1]))),
           B32Max(B32Abs(c[2]), B32Abs(c[1]))>>
    ELSE c

\* scale = (rmax - rmin) / (qmax - qmin), r the range used
ScaleOf(r, qmin, qmax) == B32Div(B32Sub(r[2], r[1]), B32Sub(qmax, qmin))

\* initial_zero_point: std::round(rmin + rmax) / 2 or qmin - (rmin / scale)
InitialZeroPoint(r, sc, qmin, symmetric) ==
    IF symmetric
    THEN B32Div(B32StdRound(B32Add(r[1], r[2])), B32FromInt(2))
    ELSE B32Sub(qmin, B32Div(r[1], sc))

\* static_cast<int32_t>(RoundHalfToEven(Saturate(qmax, qmin, initial_zero_point)))
ZeroPointCast(qmax, qmin, initial_zero_point) ==
    ToInt32(RoundHalfToEven(Saturate(qmax, qmin, initial_zero_point)))

\* the return of GetQuantParams: the Status, the scale and zero_point the
\* caller holds afterwards (scale0 and zero_point0 are what it held before)
\* and the locals; cmin and cmax are rmin and rmax as CheckMinMax returned
\* them, q is what GetQminQmax<float> returned for the defaults 0 and 255
ParamsResult(c, r, q, sc, izp, scale0, zero_point0) ==
    IF q.status # "OK"
    THEN [status |-> q.status, scale |-> scale0, zero_point |-> zero_point0,
          cmin |-> c[1], cmax |-> c[2], rmin |-> r[1], rmax |-> r[2],
          qmin |-> B32FromInt(q.qmin), qmax |-> B32FromInt(q.qmax),
          initial_zero_point |-> B32Zero]
    ELSE [status |-> "OK", scale |-> sc,
          zero_point |-> Negate(ZeroPointCast(B32FromInt(q.qmax), B32FromInt(q.qmin), izp)),
          cmin |-> c[1], cmax |-> c[2], rmin |-> r[1], rmax |-> r[2],
          qmin |-> B32FromInt(q.qmin), qmax |-> B32FromInt(q.qmax),
          initial_zero_point |-> izp]

\* GetQuantParams from the computation of initial_zero_point on
ParamsScaled(c, r, q, sc, scale0, zero_point0, symmetric) ==
    ParamsResult(c, r, q, sc, InitialZeroPoint(r, sc, B32FromInt(q.qmin), symmetric),
                 scale0, zero_point0)

\* GetQuantParams from the computation of scale on
ParamsRanged(c, r, q, scale0, zero_point0, symmetric) ==
    ParamsScaled(c, r, q, ScaleOf(r, B32FromInt(q.qmin), B32FromInt(q.qmax)),
                 scale0, zero_point0, symmetric)

\* GetQuantParams(rmin, rmax, qnn_data_type, scale, zero_point, symmetric)
GetQuantParams(rmin, rmax, qnn_data_type, scale0, zero_point0, symmetric) ==
    ParamsRanged(CheckMinMax(rmin, rmax),
                 RangeUsed(CheckMinMax(rmin, rmax), symmetric),
                 GetQminQmax(qnn_data_type, 0, 255),
                 scale0, zero_point0, symmetric)

\* the range ends handed to GetQuantParams: the integers up to MaxRange, the
\* multiples of 0.00005 up to MaxRange of them, the half-integers that put the
\* zero-point of a range spanning qmax - qmin halfway between two integers,
\* and -2^-38 and 2^-38, half a unit in the last place of 0.0001f
RangeVals(qnn_data_type) ==
    LET q    == GetQminQmax(qnn_data_type, 0, 255)
        span == q.qmax - q.qmin
    IN  {B32FromInt(n) : n \in (-MaxRange)..MaxRange}
            \cup {B32Frac(n, 20000) : n \in (-MaxRange)..MaxRange}
            \cup {B32Frac(-(2 * n + 1), 2) : n \in 0..(MaxRange - 1)}
            \cup {B32Frac(2 * span - (2 * n + 1), 2) : n \in 0..(MaxRange - 1)}
            \cup {<<-1, -38>>, <<1, -38>>}

\* --------------------------------------------- QNN Quantize / Dequantize
\* A double of Quantize and Dequantize is written <<m, e>> like a float.  The
\* quotient double_value / scale of two such values is taken exactly: for the
\* magnitudes used its double rounding is far smaller than its distance to
\* the nearest half-integer, so std::round sees the same integer.

\* the fraction r / d, 0 <= r < d, against one half
HalfCmp(r, d) ==
    IF r = 0 THEN "zero"
    ELSE IF 2 * r < d THEN "lt"
    ELSE IF 2 * r = d THEN "eq"
    ELSE "gt"

\* (q + r / d) * 2^k as <<integer part, remainder, huge>>; huge: the value is
\* 2^32 or more
RECURSIVE ShiftDiv(_, _, _, _)
ShiftDiv(q, r, d, k) ==
    IF k = 0 THEN <<q, r, FALSE>>
    ELSE IF q >= 2 ^ 30 /\ k >= 2 THEN <<q, r, TRUE>>
    ELSE IF 2 * r >= d THEN ShiftDiv(2 * q + 1, 2 * r - d, d, k - 1)
    ELSE ShiftDiv(2 * q, 2 * r, d, k - 1)

\* double_value / scale: its sign s, the integer part i of its magnitude, the
\* fraction of its magnitude against one half, and whether the magnitude is
\* 2^32 or more (i and frac are then not computed)
Quotient(double_value, sc) ==
    IF double_value[1] = 0 THEN [s |-> 0, i |-> 0, frac |-> "zero", huge |-> FALSE]
    ELSE LET n  == Abs(double_value[1])
             d  == Abs(sc[1])
             sh == double_value[2] - sc[2]
             s  == Sgn(double_value[1]) * Sgn(sc[1])
         IN  IF sh >= 0
             THEN LET l == ShiftDiv(n \div d, n % d, d, sh)
                  IN  IF l[3] THEN [s |-> s, i |-> 0, frac |-> "zero", huge |-> TRUE]
                      ELSE [s |-> s, i |-> l[1], frac |-> HalfCmp(l[2], d), huge |-> FALSE]
             ELSE IF BitLen(d) - sh > 30
             THEN [s |-> s, i |-> 0, frac |-> "lt", huge |-> FALSE]
             ELSE LET dd == d * (2 ^ (-sh))
                  IN  [s |-> s, i |-> n \div dd, frac |-> HalfCmp(n % dd, dd), huge |-> FALSE]

\* std::round((double_value / scale) - zero_point), p the quotient: nearest
\* integer, halfway cases away from zero
RoundDiff(p, zero_point) ==
    LET base == p.s * p.i - zero_point
    IN  IF p.frac = "zero" THEN base
        ELSE IF p.s > 0
        THEN IF base >= 0
             THEN base + (IF p.frac \in {"eq", "gt"} THEN 1 ELSE 0)
             ELSE base + (IF p.frac = "gt" THEN 1 ELSE 0)
        ELSE IF base <= 0
             THEN base - (IF p.frac \in {"eq", "gt"} THEN 1 ELSE 0)
             ELSE base - (IF p.frac = "gt" THEN 1 ELSE 0)

\* template <typename T> T Saturate(qmax, qmin, quant_value), T = int
SaturateInt(qmax, qmin, quant_value) ==
    IF quant_value > qmax THEN qmax
    ELSE IF quant_value < qmin THEN qmin
    ELSE quant_value

\* quant_value = Saturate(qmax, qmin, static_cast<int>(...))
StoreQuant(qmax, qmin, quant_value) == SaturateInt(qmax, qmin, quant_value)

\* what static_cast<int> of a double outside the range of int may give: the
\* conversion is undefined
UbCasts == {IntMin, IntMax, 0}

\* mutant: the zero-point is added instead of subtracted
QuantizeRound_PlusZp(p, zero_point) == RoundDiff(p, 0 - zero_point)

\* std::round((double_value / scale) - zero_point)
QuantizeRound(p, zero_point) == RoundDiff(p, zero_point)

\* Quantize(double_value, scale, zero_point, qnn_data_type, quant_value): the
\* Status, the locals and the quant_value the caller holds afterwards
\* (quant_value0 is what it held before); ub_cast is what the conversion to
\* int gives when its operand is outside the range of int
Quantize(double_value, sc, zero_point, qnn_data_type, quant_value0, ub_cast) ==
    LET q    == GetQminQmax(qnn_data_type, 0, 255)
        p    == Quotient(double_value, sc)
        cast == IF p.huge THEN ub_cast ELSE QuantizeRound(p, zero_point)
    IN  IF q.status # "OK"
        THEN [status |-> q.status, quant_value |-> quant_value0,
              qmin |-> q.qmin, qmax |-> q.qmax, overflow |-> FALSE, cast |-> 0]
        ELSE [status |-> "OK", quant_value |-> StoreQuant(q.qmax, q.qmin, cast),
              qmin |-> q.qmin, qmax |-> q.qmax, overflow |-> p.huge, cast |-> cast]

\* mutant: the offset is subtracted instead of added
Dequantize_MinusOffset(offset, sc, quant_value) ==
    [sum |-> quant_value - offset, scale |-> sc]

\* Dequantize(offset, scale, quant_value): the double (quant_value + offset_d)
\* * scale_d, kept as its two factors; the sum is an integer and the product
\* of an integer below 2^29 and a float is exact in double
Dequantize(offset, sc, quant_value) ==
    [sum |-> quant_value + offset, scale |-> sc]

\* the data types handed to GetQuantParams
QnnTypes ==
    {"QNN_DATATYPE_SFIXED_POINT_8", "QNN_DATATYPE_UFIXED_POINT_8",
     "QNN_DATATYPE_SFIXED_POINT_16", "QNN_DATATYPE_UFIXED_POINT_16",
     "QNN_DATATYPE_FLOAT_32"}

BlockIdle ==
    /\ N = 1
    /\ src = [i \in 0..(MaxK - 1) |-> Zero]
    /\ main_blob = [j \in 0..(block_size \div 2 - 1) |-> 0]
    /\ blob_in = main_blob
    /\ scale = Zero
    /\ zp = 0
    /\ dst = [i \in 0..(block_size - 1) |-> Zero]
    /\ dst_in = dst
    /\ k_idx = 0
    /\ K = 0
    /\ col = 0
    /\ loc = NoLocals
    /\ pc = "fresh"
    /\ mode = "none"
    /\ dmode = "none"

QnnInit == BlockIdle /\ QnnIdle /\ ThreadsOff /\ BuildOff /\ OthersOff

\* a call of GetQuantParams by a caller holding qout.scale and qout.zero_point
GetQuantParamsCall(rmin, rmax, qnn_data_type, symmetric) ==
    /\ qpc = "idle"
    /\ \E r \in {GetQuantParams(rmin, rmax, qnn_data_type,
                                 qout.scale, qout.zero_point, symmetric)} :
          /\ qout' = [scale |-> r.scale, zero_point |-> r.zero_point, status |-> r.status]
          /\ qloc' = [f \in DOMAIN qloc |-> r[f]]
    /\ qin' = [rmin |-> rmin, rmax |-> rmax, qnn_data_type |-> qnn_data_type,
               symmetric |-> symmetric]
    /\ qpc' = "params"
    /\ UNCHANGED <<blockvars, threadvars, buildvars, othervars, qq, qd, qb>>

\* a call of GetQminQmax<int> by a caller holding qmin0 and qmax0
GetQminQmaxCall(qnn_data_type, qmin0, qmax0) ==
    /\ qpc = "idle"
    /\ \E r \in {GetQminQmax(qnn_data_type, qmin0, qmax0)} :
           qb' = [qnn_data_type |-> qnn_data_type, qmin_in |-> qmin0, qmax_in |-> qmax0,
                  qmin |-> r.qmin, qmax |-> r.qmax, status |-> r.status]
    /\ qpc' = "bounds"
    /\ UNCHANGED <<blockvars, threadvars, buildvars, othervars, qin, qout, qloc, qq, qd>>

\* a call of Quantize by a caller holding quant_value0: on its own, or with
\* the scale and zero_point a call of GetQuantParams returned
QuantizeCall(double_value, sc, zero_point, qnn_data_type, quant_value0, ub_cast) ==
    /\ qpc \in {"idle", "params"}
    /\ \E r \in {Quantize(double_value, sc, zero_point, qnn_data_type,
                           quant_value0, ub_cast)} :
           qq' = [double_value |-> double_value, scale |-> sc, zero_point |-> zero_point,
                  qnn_data_type |-> qnn_data_type, quant_value_in |-> quant_value0,
                  quant_value |-> r.quant_value, status |-> r.status,
                  qmin |-> r.qmin, qmax |-> r.qmax, overflow |-> r.overflow,
                  cast |-> r.cast]
    /\ qpc' = IF qpc = "idle" THEN "direct" ELSE "quantized"
    /\ UNCHANGED <<blockvars, threadvars, buildvars, othervars, qin, qout, qloc, qd, qb>>

\* a call of Dequantize on the value Quantize returned, with the scale and
\* zero_point GetQuantParams returned
DequantizeCall ==
    /\ qpc = "quantized"
    /\ qq.status = "OK"
    /\ \E r \in {Dequantize(qout.zero_point, qout.scale, qq.quant_value)} :
           qd' = [offset |-> qout.zero_point, scale |-> qout.scale,
                  quant_value |-> qq.quant_value, sum |-> r.sum]
    /\ qpc' = "dequantized"
    /\ UNCHANGED <<blockvars, threadvars, buildvars, othervars, qin, qout, qloc, qq, qb>>

\* the data types handed to Quantize and GetQminQmax on their own
AllTypes == QnnSupported \cup {"QNN_DATATYPE_UFIXED_POINT_32", "QNN_DATATYPE_FLOAT_32"}

\* what the callers hold in their outputs before a call
QuantBefore == {-7}
BoundsBefore == {<<3, 9>>}

\* the values handed to Quantize on its own: small ones, ones beyond the
\* 16-bit range and ones beyond the range of int
DirectVals ==
    {B32FromInt(n) : n \in (-MaxRange)..MaxRange}
        \cup {B32Frac(1, 2), B32Frac(-3, 2), B32FromInt(70000), B32FromInt(-70000),
              <<5, 30>>, <<-5, 30>>, <<1, 40>>}
DirectScales == {B32FromInt(1), B32Frac(1, 1024), B32Frac(2, 255)}
DirectZps == {0, -128, 100}

\* the values handed to Quantize after GetQuantParams: the ends of the range
\* used, zero and two values inside
RangeSamples ==
    {qloc.rmin, qloc.rmax, B32Zero,
     B32Div(qloc.rmin, B32FromInt(3)), B32Div(qloc.rmax, B32FromInt(3))}

QnnNext ==
    \/ \E t \in QnnTypes : \E rmin \in RangeVals(t) : \E rmax \in RangeVals(t) :
          \E symmetric \in BOOLEAN :
              GetQuantParamsCall(rmin, rmax, t, symmetric)
    \/ \E t \in AllTypes : \E b \in BoundsBefore : GetQminQmaxCall(t, b[1], b[2])
    \/ /\ qpc = "idle"
       /\ \E v \in DirectVals : \E sc \in DirectScales : \E z \in DirectZps :
             \E t \in AllTypes : \E q0 \in QuantBefore : \E ub \in UbCasts :
                 QuantizeCall(v, sc, z, t, q0, ub)
    \/ /\ qpc = "params"
       /\ \E v \in RangeSamples : \E q0 \in QuantBefore : \E ub \in UbCasts :
             QuantizeCall(v, qout.scale, qout.zero_point, qin.qnn_data_type, q0, ub)
    \/ DequantizeCall

SpecQnn == QnnInit /\ [][QnnNext]_vars

\* ------------------------------------------- threads on disjoint blocks
\* Each thread owns one block object, one scale and zero-point slot and one
\* destination range, and runs quant and then dequant on the block of rows
\* Kidx(t).. of column col; the source matrix is shared.  A step is the part
\* of a call up to its first loop, or one iteration of a loop.

\* k_idx of the block thread t works on
Kidx(t) == (t - 1) * block_size

\* the row counts K of the concurrent runs: thread 2 has a partial block
ThreadKs == {MaxK - 2, MaxK}

\* main_blob of a block object before its first quant
BlobBefore == [j \in 0..(block_size \div 2 - 1) |-> CHOOSE g \in GarbageBytes : TRUE]

\* mutant: reciprocal_scale is static, one variable for all calls
ReciprocalScaleOf_Static(t) == 1

\* whose reciprocal_scale the quant call of thread t uses: it is a local
\* (const float reciprocal_scale), so every call has its own
ReciprocalScaleOf(t) == t

\* the state in which the threads start
ThreadInit ==
    /\ OthersOff
    /\ QnnIdle
    /\ BuildOff
    /\ N \in Strides
    /\ \E pat \in [0..(SrcPeriod - 1) -> Vals] : src = Matrix(pat, N)
    /\ K \in ThreadKs
    /\ col = N - 1
    /\ main_blob = [j \in 0..(block_size \div 2 - 1) |-> 0]
    /\ blob_in = main_blob
    /\ scale = Zero
    /\ zp = 0
    /\ dst = [i \in 0..(block_size - 1) |-> Zero]
    /\ dst_in = dst
    /\ k_idx = 0
    /\ loc = NoLocals
    /\ pc = "fresh"
    /\ mode = "none"
    /\ dmode = "none"
    /\ tblob = [t \in Threads |-> BlobBefore]
    /\ tscale = [t \in Threads |-> Zero]
    /\ tzp = [t \in Threads |-> 0]
    /\ tdst = [t \in Threads |-> DstBefore]
    /\ tloc = [t \in Threads |-> NoThreadLocals]
    /\ tpc = [t \in Threads |-> "ready"]
    /\ tmode = [t \in Threads |-> "none"]
    /\ tmixed = FALSE

\* some other thread is inside a call or between its two calls
OthersRunning(t) == \E u \in Threads \ {t} : tpc[u] \in {"packing", "quantized"}

\* what a step of thread t leaves alone
ThreadFrame(t) ==
    /\ tmixed' = (tmixed \/ OthersRunning(t))
    /\ UNCHANGED <<blockvars, qnnvars, buildvars, othervars>>

\* quant(src, scale, zp, k_idx, K, N) of thread t up to the packing loop
ThreadQuantZpBegin(t) ==
    /\ tpc[t] = "ready"
    /\ \E r \in {QuantZpResult(tblob[t], src, SrcBase(N, Kidx(t), col), N, Kidx(t), K)} :
          /\ tscale' = [tscale EXCEPT ![t] = r.scale]
          /\ tzp' = [tzp EXCEPT ![t] = r.zp]
          /\ tloc' = [tloc EXCEPT ![t].klen = r.klen, ![t].kk = 0, ![t].i = 0,
                                   ![ReciprocalScaleOf(t)].reciprocal_scale =
                                       r.reciprocal_scale]
    /\ tmode' = [tmode EXCEPT ![t] = "zp"]
    /\ tpc' = [tpc EXCEPT ![t] = "packing"]
    /\ UNCHANGED <<tblob, tdst>>
    /\ ThreadFrame(t)

\* quant(src, scale, k_idx, K, N) of thread t up to the packing loop
ThreadQuantSymBegin(t) ==
    /\ tpc[t] = "ready"
    /\ \E r \in {QuantSymResult(tblob[t], src, SrcBase(N, Kidx(t), col), N, Kidx(t), K)} :
          /\ tscale' = [tscale EXCEPT ![t] = r.scale]
          /\ tloc' = [tloc EXCEPT ![t].klen = r.klen, ![t].kk = 0, ![t].i = 0,
                                   ![ReciprocalScaleOf(t)].reciprocal_scale =
                                       r.reciprocal_scale]
    /\ tmode' = [tmode EXCEPT ![t] = "sym"]
    /\ tpc' = [tpc EXCEPT ![t] = "packing"]
    /\ UNCHANGED <<tblob, tzp, tdst>>
    /\ ThreadFrame(t)

\* the iteration kk of the packing loop: main_blob[kk / 2] = vi0 | (vi1 << 4)
PackIter(blob, m, base, n, klen, kk, reciprocal_scale, z, zmode) ==
    IF zmode = "zp"
    THEN PackLoopZp(blob, m, base, n, Min(klen, kk + 2), reciprocal_scale, z, kk)
    ELSE PackLoopSym(blob, m, base, n, Min(klen, kk + 2), reciprocal_scale, kk)

\* one test of the packing loop of thread t, and its body
ThreadPack(t) ==
    /\ tpc[t] = "packing"
    /\ IF tloc[t].kk < tloc[t].klen
       THEN /\ tblob' = [tblob EXCEPT ![t] =
                            PackIter(@, src, SrcBase(N, Kidx(t), col), N,
                                     tloc[t].klen, tloc[t].kk,
                                     tloc[ReciprocalScaleOf(t)].reciprocal_scale,
                                     tzp[t], tmode[t])]
            /\ tloc' = [tloc EXCEPT ![t].kk = @ + 2]
            /\ tpc' = tpc
       ELSE /\ tloc' = [tloc EXCEPT ![t].i = 0]
            /\ tpc' = [tpc EXCEPT ![t] = "quantized"]
            /\ tblob' = tblob
    /\ UNCHANGED <<tscale, tzp, tdst, tmode>>
    /\ ThreadFrame(t)

\* the iteration i of the loop of dequant(dst, scale, zp, k_idx, K)
DequantIter(d, blob, sc, z, kidx, kK, i) ==
    [j \in DOMAIN d |->
        IF j = i /\ kidx + i < kK
        THEN FMul(sc, FSub(FInt(LowNibble(blob[i \div 2])), FInt(z)))
        ELSE IF j = i + 1 /\ kidx + i + 1 < kK
        THEN FMul(sc, FSub(FInt(HighNibble(blob[i \div 2])), FInt(z)))
        ELSE d[j]]

\* one test of the loop of dequant of thread t, and its body; the overload
\* without zp passes the constant 8
ThreadDequant(t) ==
    /\ tpc[t] = "quantized"
    /\ IF tloc[t].i < block_size
       THEN /\ tdst' = [tdst EXCEPT ![t] =
                           DequantIter(@, tblob[t], tscale[t],
                                       IF tmode[t] = "zp" THEN tzp[t] ELSE 8,
                                       Kidx(t), K, tloc[t].i)]
            /\ tloc' = [tloc EXCEPT ![t].i = @ + 2]
            /\ tpc' = tpc
       ELSE /\ tpc' = [tpc EXCEPT ![t] = "done"]
            /\ UNCHANGED <<tdst, tloc>>
    /\ UNCHANGED <<tblob, tscale, tzp, tmode>>
    /\ ThreadFrame(t)

ThreadNext ==
    \/ \E t \in Threads : ThreadQuantZpBegin(t)
    \/ \E t \in Threads : ThreadQuantSymBegin(t)
    \/ \E t \in Threads : ThreadPack(t)
    \/ \E t \in Threads : ThreadDequant(t)

SpecThreads == ThreadInit /\ [][ThreadNext]_vars

\* ------------------------------------------- building with a block type
\* A program names BlockwiseQuantBlock<T, block_size, bits>, creates a block
\* object, calls quant and dequant on it and, once built, runs.

\* the template arguments tried
MaxBits == 9
MaxBlockSize == 17

\* the template the arguments select: a partial specialization for bits 3 to
\* 7, the primary template otherwise
Specialization(bits) == IF bits \in 3..7 THEN bits ELSE 0

\* mutant: the primary template carries the static_assert too
HasStaticAssert_Primary(spec) == TRUE

\* static_assert(block_size % 8 == 0) is a member of the specializations only
HasStaticAssert(spec) == spec \in 3..7

\* the condition of the static_assert
StaticAssertHolds(bs) == bs % 8 = 0

\* quant and dequant are defined for bits = 4 and only declared in the primary
\* template and in the specializations for 3, 5, 6 and 7
MethodsDefined(spec) == spec = 4

\* the program as written
BuildInit ==
    /\ OthersOff
    /\ BlockIdle
    /\ QnnIdle
    /\ ThreadsOff
    /\ cfg \in [bits : 1..MaxBits, block_size : 1..MaxBlockSize]
    /\ bpc = "written"
    /\ berr = "none"

\* the block type is set up: the class is instantiated for a block object
Instantiate ==
    /\ bpc = "written"
    /\ IF HasStaticAssert(Specialization(cfg.bits)) /\ ~StaticAssertHolds(cfg.block_size)
       THEN bpc' = "rejected" /\ berr' = "static_assert"
       ELSE bpc' = "instantiated" /\ berr' = "none"
    /\ UNCHANGED <<cfg, blockvars, qnnvars, threadvars, othervars>>

\* the calls of quant and dequant are compiled and linked
CompileCalls ==
    /\ bpc = "instantiated"
    /\ IF MethodsDefined(Specialization(cfg.bits))
       THEN bpc' = "built" /\ berr' = "none"
       ELSE bpc' = "rejected" /\ berr' = "no_definition"
    /\ UNCHANGED <<cfg, blockvars, qnnvars, threadvars, othervars>>

\* the built program runs and processes a block
ProcessBlock ==
    /\ bpc = "built"
    /\ bpc' = "processed"
    /\ UNCHANGED <<cfg, berr, blockvars, qnnvars, threadvars, othervars>>

BuildNext == Instantiate \/ CompileCalls \/ ProcessBlock

SpecBuild == BuildInit /\ [][BuildNext]_vars

\* ------------------------------------------- bit-plane layouts, widths 3..7
\* Block objects of the specializations for 3 to 7 bits are created, copied
\* and destroyed.  A plane pointer is written [obj, off]: the main_blob of
\* the object in storage obj, off bytes in.  The structs declare no copy or
\* move operation, so the ones the language supplies copy member by member;
\* the contents of main_blob are no part of the layout and are left out.

\* the block sizes tried: the static_assert admits multiples of 8 only
LayoutBlockSizes == {8, 16}

\* uint8_t main_blob[...]: the bytes of the buffer
BlobBytes(bits, bs) ==
    IF bits = 3 THEN (bs \div 8) * 3
    ELSE IF bits = 4 THEN bs \div 2
    ELSE IF bits = 5 THEN (bs \div 8) * 5
    ELSE IF bits = 6 THEN (bs \div 8) * 6
    ELSE (bs \div 8) * 7

\* the bits of every element a plane holds, as its pointer is named:
\* low_2bits, high_1bit; low_4bits, high_1bit; low_4bits, high_2bits;
\* low_4bits, middle_2bits, high_1bit
PlaneBits(bits) ==
    IF bits = 3 THEN <<2, 1>>
    ELSE IF bits = 5 THEN <<4, 1>>
    ELSE IF bits = 6 THEN <<4, 2>>
    ELSE IF bits = 7 THEN <<4, 2, 1>>
    ELSE <<>>

\* the member initializers of the constructors: where in main_blob each
\* plane pointer is set
PlaneOffsets(bits, bs) ==
    IF bits = 3 THEN <<0, bs \div 4>>
    ELSE IF bits = 5 THEN <<0, bs \div 2>>
    ELSE IF bits = 6 THEN <<0, bs \div 2>>
    ELSE IF bits = 7 THEN <<0, bs \div 2, (bs \div 8) * 6>>
    ELSE <<>>

\* the object the default constructor leaves in storage s
Constructed(s, bits, bs) ==
    [bits |-> bits, block_size |-> bs, size |-> BlobBytes(bits, bs),
     planes |-> [j \in 1..Len(PlaneOffsets(bits, bs)) |->
                    [obj |-> s, off |-> PlaneOffsets(bits, bs)[j]]]]

\* the object a member-by-member copy of b leaves: the array and the
\* pointers as b holds them
MemberwiseCopy(b) == b

LayoutInit == BlockIdle /\ QnnIdle /\ ThreadsOff /\ BuildOff /\ OthersOff
\* what the operations on block objects leave alone
notlayout == <<blockvars, qnnvars, threadvars, buildvars, paramvars, allocvars>>

\* BlockwiseQuantBlock<T, bs, bits> b; in storage s
Construct(s, bits, bs) ==
    /\ blocks[s] = NoBlock
    /\ blocks' = [blocks EXCEPT ![s] = Constructed(s, bits, bs)]
    /\ UNCHANGED notlayout

\* a block is copy- or move-constructed in storage to from the one in from
CopyConstruct(from, to) ==
    /\ from # to
    /\ blocks[from] # NoBlock
    /\ blocks[to] = NoBlock
    /\ blocks' = [blocks EXCEPT ![to] = MemberwiseCopy(blocks[from])]
    /\ UNCHANGED notlayout

\* the block in to is copy- or move-assigned the one of the same type in from
Assign(from, to) ==
    /\ from # to
    /\ blocks[from] # NoBlock
    /\ blocks[to] # NoBlock
    /\ blocks[to].bits = blocks[from].bits
    /\ blocks[to].block_size = blocks[from].block_size
    /\ blocks' = [blocks EXCEPT ![to] = MemberwiseCopy(blocks[from])]
    /\ UNCHANGED notlayout

\* the lifetime of the block in storage s ends
Destroy(s) ==
    /\ blocks[s] # NoBlock
    /\ blocks' = [blocks EXCEPT ![s] = NoBlock]
    /\ UNCHANGED notlayout

LayoutNext ==
    \/ \E s \in 1..MaxBlocks : \E bits \in 3..7 : \E bs \in LayoutBlockSizes :
          Construct(s, bits, bs)
    \/ \E from \in 1..MaxBlocks : \E to \in 1..MaxBlocks : CopyConstruct(from, to)
    \/ \E from \in 1..MaxBlocks : \E to \in 1..MaxBlocks : Assign(from, to)
    \/ \E s \in 1..MaxBlocks : Destroy(s)

SpecLayout == LayoutInit /\ [][LayoutNext]_vars

\* ------------------------------ GetQuantParams for every supported type
\* GetQuantParams over the five types GetQminQmax supports, the 32-bit one
\* included.  For that type the saturated zero-point can be 2^31, which
\* static_cast<int32_t> cannot hold, and -2^31, which 0 - zero_point cannot
\* negate: both are undefined, and gub holds what the build makes of them.

\* a float holding an integer lies inside the range of int32_t
FitsInt32(x) == B32Lt(x, <<1, 31>>) /\ B32Le(<<-1, 31>>, x)

\* static_cast<int32_t> of a float holding an integer; cast is what an
\* operand outside the range of int32_t gives
CastInt32(x, cast) ==
    IF ~FitsInt32(x) THEN cast
    ELSE IF x = <<-1, 31>> THEN IntMin
    ELSE ToInt32(x)

\* zero_point = 0 - zero_point; neg is what the overflow of 0 - INT_MIN gives
NegateInt32(zero_point, neg) ==
    IF zero_point = IntMin THEN neg ELSE Negate(zero_point)

\* the last two statements of GetQuantParams, from the saturated and rounded
\* zero-point z on, ub the outcomes of the build
ParamsCast(sc, z, ub) ==
    [status |-> "OK", scale |-> sc, rounded |-> z,
     zero_point |-> NegateInt32(CastInt32(z, ub.cast), ub.neg),
     cast_defined |-> FitsInt32(z),
     negation_defined |-> CastInt32(z, ub.cast) # IntMin]

\* GetQuantParams from the computation of scale on: r the range used, q what
\* GetQminQmax<float> returned
ParamsFrom(r, q, scale0, zero_point0, symmetric, ub) ==
    IF q.status # "OK"
    THEN [status |-> q.status, scale |-> scale0, rounded |-> B32Zero,
          zero_point |-> zero_point0, cast_defined |-> TRUE,
          negation_defined |-> TRUE]
    ELSE ParamsCast(ScaleOf(r, B32FromInt(q.qmin), B32FromInt(q.qmax)),
                    RoundHalfToEven(Saturate(B32FromInt(q.qmax), B32FromInt(q.qmin),
                        InitialZeroPoint(r, ScaleOf(r, B32FromInt(q.qmin), B32FromInt(q.qmax)),
                                         B32FromInt(q.qmin), symmetric))),
                    ub)

\* GetQuantParams(rmin, rmax, qnn_data_type, scale, zero_point, symmetric)
\* with the conversions that can overflow
GetQuantParamsInt32(rmin, rmax, qnn_data_type, scale0, zero_point0, symmetric, ub) ==
    ParamsFrom(RangeUsed(CheckMinMax(rmin, rmax), symmetric),
               GetQminQmax(qnn_data_type, 0, 255),
               scale0, zero_point0, symmetric, ub)

\* the range ends handed in: the integers up to MaxRange, the multiples of
\* 0.00005 up to MaxRange of them, and -2^100 and 2^100
ParamRangeVals ==
    {B32FromInt(n) : n \in (-MaxRange)..MaxRange}
        \cup {B32Frac(n, 20000) : n \in (-MaxRange)..MaxRange}
        \cup {<<-1, 100>>, <<1, 100>>}

ParamsInit ==
    /\ BlockIdle /\ QnnIdle /\ ThreadsOff /\ BuildOff /\ LayoutOff /\ AllocOff
    /\ gin = [rmin |-> <<0, 0>>, rmax |-> <<0, 0>>, qnn_data_type |-> "none", symmetric |-> FALSE]
    /\ gout = <<>>
    /\ gub \in [cast : UbCasts, neg : UbCasts]

\* what the calls of GetQuantParams leave alone
notparams == <<blockvars, qnnvars, threadvars, buildvars, layoutvars, allocvars>>

\* the first call, by a caller holding scale -1 and zero_point 77
ParamsCall(rmin, rmax, qnn_data_type, symmetric) ==
    /\ gout = <<>>
    /\ gin' = [rmin |-> rmin, rmax |-> rmax, qnn_data_type |-> qnn_data_type,
               symmetric |-> symmetric]
    /\ gout' = <<GetQuantParamsInt32(rmin, rmax, qnn_data_type, B32FromInt(-1), 77,
                                     symmetric, gub)>>
    /\ UNCHANGED <<gub, notparams>>

\* the same caller calls again with the same arguments, holding what the
\* first call returned
ParamsCallAgain ==
    /\ Len(gout) = 1
    /\ gout' = Append(gout, GetQuantParamsInt32(gin.rmin, gin.rmax, gin.qnn_data_type,
                                                gout[1].scale, gout[1].zero_point,
                                                gin.symmetric, gub))
    /\ UNCHANGED <<gin, gub, notparams>>

ParamsNext ==
    \/ \E t \in QnnSupported : \E rmin \in ParamRangeVals : \E rmax \in ParamRangeVals :
          \E symmetric \in BOOLEAN : ParamsCall(rmin, rmax, t, symmetric)
    \/ ParamsCallAgain

SpecParams == ParamsInit /\ [][ParamsNext]_vars

\* ------------------------------------ a block object quantized repeatedly
\* One block object is handed to quant again and again, with either
\* overload, any block of any column of the source matrix and any K.

\* the source matrices: values rising and values falling along the rows
RepeatPatterns ==
    {[i \in 0..(SrcPeriod - 1) |-> FInt((i % (2 * MaxVal + 1)) - MaxVal)],
     [i \in 0..(SrcPeriod - 1) |-> FInt(MaxVal - (i % (2 * MaxVal + 1)))]}

RepeatInit ==
    /\ OthersOff
    /\ QnnIdle
    /\ ThreadsOff
    /\ BuildOff
    /\ N \in Strides
    /\ \E pat \in RepeatPatterns : src = Matrix(pat, N)
    /\ \E g \in GarbageBytes : main_blob = [j \in 0..(block_size \div 2 - 1) |-> g]
    /\ blob_in = main_blob
    /\ scale = Zero
    /\ zp = 0
    /\ dst = [i \in 0..(block_size - 1) |-> Zero]
    /\ dst_in = dst
    /\ k_idx = 0
    /\ K = 0
    /\ col = 0
    /\ loc = NoLocals
    /\ pc = "fresh"
    /\ mode = "none"
    /\ dmode = "none"

\* a call of quant(src, scale, zp, k_idx, K, N) on the block, fresh or not
RepeatQuantZp(kidx, kK, c) ==
    /\ kidx < kK
    /\ \E r \in {QuantZpResult(main_blob, src, SrcBase(N, kidx, c), N, kidx, kK)} :
           /\ main_blob' = r.main_blob
           /\ scale' = r.scale
           /\ zp' = r.zp
           /\ loc' = [f \in DOMAIN NoLocals |-> r[f]]
    /\ blob_in' = main_blob
    /\ k_idx' = kidx
    /\ K' = kK
    /\ col' = c
    /\ pc' = "quantized"
    /\ mode' = "zp"
    /\ UNCHANGED <<src, N, dst, dst_in, dmode, qnnvars, threadvars, buildvars, othervars>>

\* a call of quant(src, scale, k_idx, K, N) on the block, fresh or not
RepeatQuantSym(kidx, kK, c) ==
    /\ kidx < kK
    /\ \E r \in {QuantSymResult(main_blob, src, SrcBase(N, kidx, c), N, kidx, kK)} :
           /\ main_blob' = r.main_blob
           /\ scale' = r.scale
           /\ loc' = [f \in DOMAIN NoLocals |-> r[f]]
    /\ blob_in' = main_blob
    /\ k_idx' = kidx
    /\ K' = kK
    /\ col' = c
    /\ pc' = "quantized"
    /\ mode' = "sym"
    /\ UNCHANGED <<src, N, zp, dst, dst_in, dmode, qnnvars, threadvars, buildvars, othervars>>

\* the row counts K of the repeated calls: a partial block, one full block,
\* and a full block followed by a partial one
RepeatKs == {block_size - 5, block_size, MaxK}
\* the columns the repeated calls are pointed at: the first and the last
RepeatColumns(n) == {0, n - 1}

RepeatNext ==
    \/ \E kK \in RepeatKs : \E kidx \in BlockStarts(kK) : \E c \in RepeatColumns(N) :
          RepeatQuantZp(kidx, kK, c)
    \/ \E kK \in RepeatKs : \E kidx \in BlockStarts(kK) : \E c \in RepeatColumns(N) :
          RepeatQuantSym(kidx, kK, c)

SpecRepeat == RepeatInit /\ [][RepeatNext]_vars

\* ------------------------------------------ per-device allocator cache
\* GetCudaAllocator, GetRocmAllocator and GetCannAllocator each keep a
\* function-local static map from device id to allocator; a build has the
\* one of its provider.  An allocator is written as its number among those
\* created for its device id.  A call is taken in the steps find, create,
\* emplace and return, each on the map as it stands; the map is not
\* synchronised, so an emplace made while another thread is inside the
\* function races with it.

AllocKinds == {"cuda", "rocm", "cann"}
DeviceIds == 0..MaxDeviceId

\* mutant: find never hits
MapFind_Miss(m, id) == 0

\* id_to_allocator_map->find(id): the allocator found, 0 for end()
MapFind(m, id) == m[id]

\* emplace(id, allocator) and insert({id, allocator}): what the map may hold
\* for id afterwards.  An existing entry is kept; when the call races with
\* another thread the outcome is undefined: the entry kept or replaced.
MapEmplace(m, id, alloc, racing) ==
    IF m[id] = 0 THEN {alloc}
    ELSE IF racing THEN {m[id], alloc}
    ELSE {m[id]}

AllocInit ==
    /\ BlockIdle /\ QnnIdle /\ ThreadsOff /\ BuildOff /\ LayoutOff /\ ParamsOff
    /\ akind \in AllocKinds
    /\ amap = [d \in DeviceIds |-> 0]
    /\ created = [d \in DeviceIds |-> 0]
    /\ acall = [t \in Threads |-> NoCall]
    /\ overlapped = FALSE

\* what the allocator functions leave alone
notalloc == <<blockvars, qnnvars, threadvars, buildvars, layoutvars, paramvars>>

\* thread t calls the allocator function with device id id
EnterCall(t, id) ==
    /\ acall[t].pc = "idle"
    /\ acall' = [acall EXCEPT ![t] = [pc |-> "find", id |-> id, hit |-> 0,
                                      alloc |-> 0, ret |-> 0]]
    /\ overlapped' = (overlapped \/ \E u \in Threads \ {t} : acall[u].pc # "idle")
    /\ UNCHANGED <<akind, amap, created, notalloc>>

\* auto hit = id_to_allocator_map->find(id); if (hit == end()) ...
Find(t) ==
    /\ acall[t].pc = "find"
    /\ \E h \in {MapFind(amap, acall[t].id)} :
           acall' = [acall EXCEPT ![t].hit = h,
                                  ![t].pc = IF h = 0 THEN "create" ELSE "return"]
    /\ UNCHANGED <<akind, amap, created, overlapped, notalloc>>

\* CreateCudaAllocator(id, ...), CreateRocmAllocator, CreateCannAllocator
Create(t) ==
    /\ acall[t].pc = "create"
    /\ created' = [created EXCEPT ![acall[t].id] = @ + 1]
    /\ acall' = [acall EXCEPT ![t].alloc = created[acall[t].id] + 1,
                              ![t].pc = "emplace"]
    /\ UNCHANGED <<akind, amap, overlapped, notalloc>>

\* hit = id_to_allocator_map->emplace(id, std::move(allocator)).first, or
\* id_to_allocator_map->insert({id, allocator})
Emplace(t) ==
    /\ acall[t].pc = "emplace"
    /\ \E e \in MapEmplace(amap, acall[t].id, acall[t].alloc,
                           \E u \in Threads \ {t} : acall[u].pc # "idle") :
           /\ amap' = [amap EXCEPT ![acall[t].id] = e]
           /\ acall' = [acall EXCEPT ![t].hit = e, ![t].pc = "return"]
    /\ UNCHANGED <<akind, created, overlapped, notalloc>>

\* return hit->second, or return (*id_to_allocator_map)[id]
Return(t) ==
    /\ acall[t].pc = "return"
    /\ acall' = [acall EXCEPT ![t] = [pc |-> "idle", id |-> acall[t].id, hit |-> 0,
                                      alloc |-> 0,
                                      ret |-> IF akind = "rocm" THEN amap[acall[t].id]
                                              ELSE acall[t].hit]]
    /\ UNCHANGED <<akind, amap, created, overlapped, notalloc>>

AllocNext ==
    \/ \E t \in Threads : \E id \in DeviceIds : EnterCall(t, id)
    \/ \E t \in Threads : Find(t)
    \/ \E t \in Threads : Create(t)
    \/ \E t \in Threads : Emplace(t)
    \/ \E t \in Threads : Return(t)

SpecAlloc == AllocInit /\ [][AllocNext]_vars

\* ================================================================ claims
\* klen of the last quant call, and its valid and padding positions
LastKlen == Klen(k_idx, K)
ValidPos == 0..(LastKlen - 1)
PaddingPos == LastKlen..(block_size - 1)
\* the source element the last quant call read for position i
SrcElem(i) == src[SrcBase(N, k_idx, col) + N * i]
\* the 4-bit code a block holds for position i: element 2j in the low nibble
\* of byte j, element 2j+1 in the high nibble
NibbleAt(blob, i) == (blob[i \div 2] \div (IF i % 2 = 0 THEN 1 ELSE 16)) % 16
\* the zero-point the last dequant call decoded with
ZpUsed == IF dmode = "zp" THEN zp ELSE 8
\* the code the last quant call computed for position i
CodeWritten(i) ==
    IF mode = "zp" THEN CodeZp(SrcElem(i), loc.reciprocal_scale, zp)
    ELSE CodeSym(FMul(SrcElem(i), loc.reciprocal_scale))
\* the code the last quant call gives a source value 0.0
ZeroCode ==
    IF mode = "zp" THEN CodeZp(Zero, loc.reciprocal_scale, zp)
    ELSE CodeSym(FMul(Zero, loc.reciprocal_scale))
Quantized == pc \in {"quantized", "dequantized"}
\* quant and the dequant overload that matches it have both run
RoundTripZp == pc = "dequantized" /\ mode = "zp" /\ dmode = "zp"
RoundTripSym == pc = "dequantized" /\ mode = "sym" /\ dmode = "default"

\* C1: after quant with a zero-point and dequant with that zero-point, every
\* valid position is reconstructed within one scale of its source value.
C1_AsymRoundTrip ==
    RoundTripZp =>
        \A i \in ValidPos : FLe(FAbs(FSub(dst[i], SrcElem(i))), scale)

C1_Witness ==
    /\ RoundTripZp
    /\ LastKlen = block_size
    /\ N = MaxN
    /\ scale # Zero
    /\ \E i \in ValidPos : dst[i] # SrcElem(i)

\* C2 as stated: after symmetric quant and dequant without a zero-point,
\* every valid position is within the written scale of its source value.
C2_SymRoundTripSignedScale ==
    RoundTripSym =>
        \A i \in ValidPos : FLe(FAbs(FSub(dst[i], SrcElem(i))), scale)

\* C2 amended: the error is within the magnitude |scale| of the written
\* scale, which is negative when the first largest-magnitude element is
\* positive.
C2_SymRoundTripAbsScale ==
    RoundTripSym =>
        \A i \in ValidPos : FLe(FAbs(FSub(dst[i], SrcElem(i))), FAbs(scale))

C2_Witness ==
    /\ RoundTripSym
    /\ FLt(scale, Zero)
    /\ \E i \in ValidPos : FAbs(FSub(dst[i], SrcElem(i))) = FAbs(scale)

\* C3: dequant writes exactly the positions i with k_idx + i < K, each with
\* scale * (code - zp), and leaves every other position of dst as it was.
C3_DequantMask ==
    pc = "dequantized" =>
        \A i \in 0..(block_size - 1) :
            IF k_idx + i < K
            THEN /\ dst[i] = FMul(scale, FSub(FInt(NibbleAt(main_blob, i)), FInt(ZpUsed)))
                 /\ dst[i] # dst_in[i]
            ELSE dst[i] = dst_in[i]

C3_Witness ==
    /\ pc = "dequantized"
    /\ K = 11
    /\ k_idx = 8
    /\ \A i \in 0..2 : dst[i] # dst_in[i]
    /\ \A i \in 3..(block_size - 1) : dst[i] = dst_in[i]

\* C4: quant stores the code of element 2j in the low nibble of byte j and the
\* code of element 2j+1 in the high nibble, and dequant decodes position i as
\* scale * (code_i - zp) from the code quant wrote for position i.
C4_NibbleLayout ==
    /\ Quantized =>
          \A i \in ValidPos : NibbleAt(main_blob, i) = CodeWritten(i)
    /\ pc = "dequantized" =>
          \A i \in ValidPos :
              dst[i] = FMul(scale, FSub(FInt(CodeWritten(i)), FInt(ZpUsed)))

C4_Witness ==
    /\ pc = "dequantized"
    /\ scale # Zero
    /\ \E j \in 0..(block_size \div 2 - 1) :
          /\ 2 * j + 1 \in ValidPos
          /\ CodeWritten(2 * j) # CodeWritten(2 * j + 1)
          /\ dst[2 * j] # dst[2 * j + 1]

\* C5: dequant without a zero-point leaves dst exactly as dequant with
\* zero-point 8 does.
C5_DefaultZeroPoint ==
    (pc = "dequantized" /\ dmode = "default") =>
        dst = Dequant(dst_in, main_blob, scale, 8, k_idx, K)

C5_Witness ==
    /\ pc = "dequantized"
    /\ dmode = "default"
    /\ scale # Zero
    /\ \E i \in ValidPos : NibbleAt(main_blob, i) # 8

\* the least and the greatest element of a non-empty finite set of floats
LeastOf(S) == CHOOSE x \in S : \A y \in S : FLe(x, y)
GreatestOf(S) == CHOOSE x \in S : \A y \in S : FLe(y, x)
\* the integer nearest to x among ks, halfway cases away from zero
NearestIn(x, ks) ==
    CHOOSE k \in ks :
        LET d2 == FMul(FInt(2), FAbs(FSub(x, FInt(k))))
        IN  \/ FLt(d2, FInt(1))
            \/ d2 = FInt(1) /\ FLt(FAbs(x), FInt(Abs(k)))
\* an integer saturated into [0, 15]
Sat15(k) == IF k < 0 THEN 0 ELSE IF k > 15 THEN 15 ELSE k

SpansSymmetric(a) ==
    /\ FLt(Zero, a)
    /\ \E i \in ValidPos : SrcElem(i) = a
    /\ \E i \in ValidPos : SrcElem(i) = FNeg(a)
    /\ \A i \in ValidPos : FLe(FAbs(SrcElem(i)), a)
\* the first valid position holding a value of the largest magnitude
FirstExtreme ==
    CHOOSE i \in ValidPos :
        /\ \A j \in ValidPos : FLe(FAbs(SrcElem(j)), FAbs(SrcElem(i)))
        /\ \A j \in 0..(i - 1) : FLt(FAbs(SrcElem(j)), FAbs(SrcElem(i)))

\* C7 as stated: symmetric quant of a block spanning [-a, a], both ends
\* present in whichever order, writes scale = a / 8 and stores 0.0 as code 8.
C7_SymScalePositive ==
    (Quantized /\ mode = "sym") =>
        \A a \in Vals :
            SpansSymmetric(a) =>
                /\ scale = FDiv(a, FInt(8))
                /\ \A i \in ValidPos : SrcElem(i) = Zero => NibbleAt(main_blob, i) = 8

\* C7 amended: scale = a / 8 when the first element of magnitude a is -a and
\* scale = -a / 8 when it is +a; in both cases 0.0 is stored as code 8.
C7_SymScaleBySign ==
    (Quantized /\ mode = "sym") =>
        \A a \in Vals :
            SpansSymmetric(a) =>
                /\ scale = IF SrcElem(FirstExtreme) = FNeg(a)
                           THEN FDiv(a, FInt(8)) ELSE FDiv(FNeg(a), FInt(8))
                /\ \A i \in ValidPos : SrcElem(i) = Zero => NibbleAt(main_blob, i) = 8

C7_Witness ==
    /\ Quantized
    /\ mode = "sym"
    /\ SpansSymmetric(FInt(1))
    /\ SrcElem(FirstExtreme) = FInt(1)
    /\ scale = FDiv(FInt(-1), FInt(8))
    /\ \E i \in ValidPos : SrcElem(i) = Zero /\ NibbleAt(main_blob, i) = 8

\* every valid source value of the last quant call is 0.0
Degenerate == \A i \in ValidPos : SrcElem(i) = Zero

\* C8: on a block whose valid values are all 0.0 both quant overloads take
\* reciprocal_scale as 0 instead of dividing by the scale, write scale = 0 and
\* store the code of zero at every valid position; the matching dequant
\* reconstructs 0.0 at every valid position.
C8_DegenerateBlock ==
    (Quantized /\ Degenerate) =>
        /\ scale = Zero
        /\ loc.scale = Zero
        /\ loc.reciprocal_scale = Zero
        /\ IsFinite(loc.zero_point_fp)
        /\ \A i \in ValidPos :
              NibbleAt(main_blob, i) = (IF mode = "zp" THEN zp ELSE 8)
        /\ (RoundTripZp \/ RoundTripSym) => \A i \in ValidPos : dst[i] = Zero

C8_Witness ==
    /\ Degenerate
    /\ RoundTripZp \/ RoundTripSym
    /\ LastKlen > 1
    /\ \A i \in ValidPos : dst[i] = Zero /\ dst_in[i] # Zero

\* C9 as stated: after quant of a partial block every padding position
\* klen <= i < block_size holds the code of a source value 0.0.
C9_AllPaddingZeroed ==
    (Quantized /\ LastKlen < block_size) =>
        \A i \in PaddingPos : NibbleAt(main_blob, i) = ZeroCode

\* C9 amended: only the padding position that shares a byte with the last
\* valid element (position klen, when klen is odd) holds the code of a source
\* value 0.0; every byte from index ceil(klen / 2) on is left as it was.
C9_OddPaddingOnly ==
    (Quantized /\ LastKlen < block_size) =>
        /\ LastKlen % 2 = 1 => NibbleAt(main_blob, LastKlen) = ZeroCode
        /\ \A j \in ((LastKlen + 1) \div 2)..(block_size \div 2 - 1) :
              main_blob[j] = blob_in[j]

C9_Witness ==
    /\ Quantized
    /\ LastKlen = 3
    /\ NibbleAt(main_blob, 3) = ZeroCode
    /\ NibbleAt(blob_in, 3) # ZeroCode
    /\ \E i \in PaddingPos : NibbleAt(main_blob, i) # ZeroCode

\* C10: the range CheckMinMax returns always includes zero, also for
\* rmin > 0 and for rmax < 0, and GetQuantParams derives scale and zero-point
\* from that clamped range.
C10_ZeroInclusion ==
    qpc = "params" =>
        LET amax == IF B32Lt(B32Neg(qloc.cmin), qloc.cmax)
                    THEN qloc.cmax ELSE B32Neg(qloc.cmin)
            lo   == IF qin.symmetric THEN B32Neg(amax) ELSE qloc.cmin
            hi   == IF qin.symmetric THEN amax ELSE qloc.cmax
        IN  /\ B32Le(qloc.cmin, B32Zero) /\ B32Le(B32Zero, qloc.cmax)
            /\ B32Le(qloc.cmin, qin.rmin) /\ B32Le(qin.rmax, qloc.cmax)
            /\ qloc.rmin = lo /\ qloc.rmax = hi
            /\ qout.status = "OK" =>
                  /\ qout.scale = B32Div(B32Sub(hi, lo), B32Sub(qloc.qmax, qloc.qmin))
                  /\ ~qin.symmetric =>
                        qout.zero_point =
                            -ToInt32(RoundHalfToEven(Saturate(qloc.qmax, qloc.qmin,
                                B32Sub(qloc.qmin, B32Div(lo, qout.scale)))))

C10_Witness ==
    /\ qpc = "params"
    /\ qout.status = "OK"
    /\ ~qin.symmetric
    /\ B32Lt(B32Zero, qin.rmin)
    /\ B32Lt(qin.rmin, qin.rmax)
    /\ qloc.rmin = B32Zero
    /\ qout.zero_point # 0

\* C11 as stated: CheckMinMax returns (rmin, rmax) unchanged whenever
\* rmin <= 0 <= rmax.
C11_NoOpOnZeroRanges ==
    (qpc = "params" /\ B32Le(qin.rmin, B32Zero) /\ B32Le(B32Zero, qin.rmax)) =>
        (qloc.cmin = qin.rmin /\ qloc.cmax = qin.rmax)

\* C11 amended: for rmin <= 0 <= rmax CheckMinMax returns rmin unchanged, and
\* rmax unchanged when rmax >= rmin + 0.0001f (the sum taken in float);
\* otherwise it returns rmin + 0.0001f for rmax.
C11_NoOpOnWideZeroRanges ==
    (qpc = "params" /\ B32Le(qin.rmin, B32Zero) /\ B32Le(B32Zero, qin.rmax)) =>
        /\ qloc.cmin = qin.rmin
        /\ qloc.cmax = IF B32Le(B32Add(qin.rmin, B32Frac(1, 10000)), qin.rmax)
                       THEN qin.rmax
                       ELSE B32Add(qin.rmin, B32Frac(1, 10000))

C11_Witness ==
    /\ qpc = "params"
    /\ B32Lt(qin.rmin, B32Zero)
    /\ B32Lt(B32Zero, qin.rmax)
    /\ B32Le(B32Add(qin.rmin, B32Frac(1, 10000)), qin.rmax)
    /\ qloc.cmin = qin.rmin
    /\ qloc.cmax = qin.rmax

ClampedRound(double_value, sc, zero_point, qmin, qmax) ==
    IF Quotient(double_value, sc).huge
    THEN IF Quotient(double_value, sc).s > 0 THEN qmax ELSE qmin
    ELSE SaturateInt(qmax, qmin, RoundDiff(Quotient(double_value, sc), zero_point))

\* C13: for every supported type, scale > 0, zero_point and value, also one
\* whose quotient is far outside the range of int, Quantize returns OK and
\* quant_value = round(value / scale - zero_point) clamped into [qmin, qmax].
C13_QuantizeSaturates ==
    (qpc = "direct" /\ qq.qnn_data_type \in QnnSupported /\ B32Lt(B32Zero, qq.scale)) =>
        /\ qq.status = "OK"
        /\ qq.quant_value =
              ClampedRound(qq.double_value, qq.scale, qq.zero_point, qq.qmin, qq.qmax)

\* the part of C13 that holds: as long as the rounded quotient fits an int,
\* Quantize returns it clamped into [qmin, qmax]
C13_QuantizeSaturatesInRange ==
    (qpc = "direct" /\ qq.qnn_data_type \in QnnSupported /\ ~qq.overflow) =>
        /\ qq.status = "OK"
        /\ qq.quant_value =
              ClampedRound(qq.double_value, qq.scale, qq.zero_point, qq.qmin, qq.qmax)
        /\ qq.qmin <= qq.quant_value /\ qq.quant_value <= qq.qmax

\* the fixed-point types of the bounds table: the listed ones and unsigned 32
FixedPointTypes == QnnSupported \cup {"QNN_DATATYPE_UFIXED_POINT_32"}

\* C14: GetQminQmax returns OK with the exact bounds for signed 8, unsigned 8,
\* signed 16, unsigned 16, signed 32 and unsigned 32: [-128, 127], [0, 255],
\* [-32768, 32767], [0, 65535], [-2^31, 2^31 - 1], [0, 2^32 - 1].
C14_BoundsTable ==
    (qpc = "bounds" /\ qb.qnn_data_type \in FixedPointTypes) =>
        /\ qb.status = "OK"
        /\ qb.qnn_data_type = "QNN_DATATYPE_SFIXED_POINT_8" => (qb.qmin = -128 /\ qb.qmax = 127)
        /\ qb.qnn_data_type = "QNN_DATATYPE_UFIXED_POINT_8" => (qb.qmin = 0 /\ qb.qmax = 255)
        /\ qb.qnn_data_type = "QNN_DATATYPE_SFIXED_POINT_16" => (qb.qmin = -32768 /\ qb.qmax = 32767)
        /\ qb.qnn_data_type = "QNN_DATATYPE_UFIXED_POINT_16" => (qb.qmin = 0 /\ qb.qmax = 65535)
        /\ qb.qnn_data_type = "QNN_DATATYPE_SFIXED_POINT_32" =>
              (qb.qmin + 1 = -IntMax /\ qb.qmax = IntMax)
        /\ qb.qnn_data_type = "QNN_DATATYPE_UFIXED_POINT_32" =>
              (qb.qmin = 0 /\ qb.qmax \div 2 = IntMax /\ qb.qmax % 2 = 1)

\* the part of C14 that holds: the five listed types get their exact bounds
C14_ListedBounds ==
    (qpc = "bounds" /\ qb.qnn_data_type \in QnnSupported) =>
        /\ qb.status = "OK"
        /\ qb.qnn_data_type = "QNN_DATATYPE_SFIXED_POINT_8" => (qb.qmin = -128 /\ qb.qmax = 127)
        /\ qb.qnn_data_type = "QNN_DATATYPE_UFIXED_POINT_8" => (qb.qmin = 0 /\ qb.qmax = 255)
        /\ qb.qnn_data_type = "QNN_DATATYPE_SFIXED_POINT_16" => (qb.qmin = -32768 /\ qb.qmax = 32767)
        /\ qb.qnn_data_type = "QNN_DATATYPE_UFIXED_POINT_16" => (qb.qmin = 0 /\ qb.qmax = 65535)
        /\ qb.qnn_data_type = "QNN_DATATYPE_SFIXED_POINT_32" =>
              (qb.qmin + 1 = -IntMax /\ qb.qmax = IntMax)

\* C15: for a data type GetQminQmax does not list, GetQminQmax, GetQuantParams
\* and Quantize each return a non-OK status and leave the caller's outputs
\* (qmin and qmax; scale and zero_point; quant_value) as they were before the
\* call.
C15_UnsupportedTypeReported ==
    [][/\ (qpc' = "bounds" /\ qb'.qnn_data_type \notin QnnSupported) =>
              /\ qb'.status # "OK"
              /\ qb'.qmin = qb'.qmin_in /\ qb'.qmax = qb'.qmax_in
       /\ (qpc' = "params" /\ qin'.qnn_data_type \notin QnnSupported) =>
              /\ qout'.status # "OK"
              /\ qout'.scale = qout.scale /\ qout'.zero_point = qout.zero_point
       /\ (qpc' \in {"direct", "quantized"} /\ qq'.qnn_data_type \notin QnnSupported) =>
              /\ qq'.status # "OK"
              /\ qq'.quant_value = qq'.quant_value_in]_vars

C15_Witness ==
    /\ qpc = "quantized"
    /\ qin.qnn_data_type \notin QnnSupported
    /\ qout.status # "OK"
    /\ qq.qnn_data_type = qin.qnn_data_type
    /\ qq.status # "OK"
    /\ qq.quant_value = qq.quant_value_in
    /\ qq.quant_value \notin 0..255

\* the zero-point with the rounding done before the saturation
RoundThenSaturate(qmax, qmin, initial_zero_point) ==
    ToInt32(Saturate(qmax, qmin, RoundHalfToEven(initial_zero_point)))

\* C16 as stated: asymmetric GetQuantParams returns scale = (rmax' - rmin') /
\* (qmax - qmin) and zero_point = -(RoundHalfToEven(qmin - rmin' / scale)
\* saturated into [qmin, qmax]), rounding before or after saturating; for
\* unsigned 8-bit and the range [-1, 1] the zero-point is -128.
C16_AsymZeroPointTie128 ==
    (qpc = "params" /\ ~qin.symmetric /\ qout.status = "OK") =>
        /\ qout.scale = B32Div(B32Sub(qloc.cmax, qloc.cmin), B32Sub(qloc.qmax, qloc.qmin))
        /\ qout.zero_point = -RoundThenSaturate(qloc.qmax, qloc.qmin,
                                  B32Sub(qloc.qmin, B32Div(qloc.cmin, qout.scale)))
        /\ qout.zero_point = -ZeroPointCast(qloc.qmax, qloc.qmin,
                                  B32Sub(qloc.qmin, B32Div(qloc.cmin, qout.scale)))
        /\ (/\ qin.qnn_data_type = "QNN_DATATYPE_UFIXED_POINT_8"
            /\ qin.rmin = B32FromInt(-1) /\ qin.rmax = B32FromInt(1))
              => qout.zero_point = -128

\* C16 amended: with every operation taken in float, asymmetric GetQuantParams
\* returns scale = (rmax' - rmin') / (qmax - qmin) and zero_point =
\* -(RoundHalfToEven(qmin - rmin' / scale) saturated into [qmin, qmax]),
\* rounding before or after saturating; exact ties go to the even integer
\* (unsigned 8-bit: [-0.5, 254.5] gives 0.5 -> 0, [-1.5, 253.5] gives 1.5 -> 2);
\* for unsigned 8-bit and [-1, 1] the float quotient is below 127.5 and the
\* zero-point is -127.
C16_AsymZeroPointFloat ==
    (qpc = "params" /\ ~qin.symmetric /\ qout.status = "OK") =>
        /\ qout.scale = B32Div(B32Sub(qloc.cmax, qloc.cmin), B32Sub(qloc.qmax, qloc.qmin))
        /\ qout.zero_point = -RoundThenSaturate(qloc.qmax, qloc.qmin,
                                  B32Sub(qloc.qmin, B32Div(qloc.cmin, qout.scale)))
        /\ qout.zero_point = -ZeroPointCast(qloc.qmax, qloc.qmin,
                                  B32Sub(qloc.qmin, B32Div(qloc.cmin, qout.scale)))
        /\ -qout.zero_point \in ToInt32(qloc.qmin)..ToInt32(qloc.qmax)
        /\ qin.qnn_data_type = "QNN_DATATYPE_UFIXED_POINT_8" =>
              /\ (qin.rmin = B32FromInt(-1) /\ qin.rmax = B32FromInt(1))
                    => (B32Lt(qloc.initial_zero_point, B32Frac(255, 2))
                        /\ qout.zero_point = -127)
              /\ (qin.rmin = B32Frac(-1, 2) /\ qin.rmax = B32Frac(509, 2))
                    => (qloc.initial_zero_point = B32Frac(1, 2) /\ qout.zero_point = 0)
              /\ (qin.rmin = B32Frac(-3, 2) /\ qin.rmax = B32Frac(507, 2))
                    => (qloc.initial_zero_point = B32Frac(3, 2) /\ qout.zero_point = -2)

C16_Witness ==
    /\ qpc = "params"
    /\ ~qin.symmetric
    /\ qout.status = "OK"
    /\ qin.qnn_data_type = "QNN_DATATYPE_UFIXED_POINT_8"
    /\ qin.rmin = B32Frac(-3, 2)
    /\ qloc.initial_zero_point = B32Frac(3, 2)
    /\ qout.zero_point = -2

\* |sum - x| <= 1 for the integer sum and the quotient x given by its parts p
WithinOne(sum, p) ==
    IF p.frac = "zero"
    THEN Abs(sum - p.s * p.i) <= 1
    ELSE sum \in {(IF p.s > 0 THEN p.i ELSE -p.i - 1),
                  (IF p.s > 0 THEN p.i ELSE -p.i - 1) + 1}

\* Dequantize returned a value within one scale of the v Quantize was given:
\* |(quant_value + offset) * scale - v| <= scale, divided by scale > 0
RoundTripWithinScale ==
    /\ qd.sum = qq.quant_value + qout.zero_point
    /\ qd.scale = qout.scale
    /\ WithinOne(qd.sum, Quotient(qq.double_value, qout.scale))

\* the round trips C17 is about: asymmetric parameters, a supported type, a
\* value of the clamped range quantized and dequantized
AsymRoundTripDone ==
    /\ qpc = "dequantized"
    /\ ~qin.symmetric
    /\ qout.status = "OK"
    /\ B32Le(qloc.cmin, qq.double_value) /\ B32Le(qq.double_value, qloc.cmax)

\* C17 as stated: with (scale, zero_point) from asymmetric GetQuantParams and v
\* in [rmin', rmax'], Dequantize(zero_point, scale, Quantize(v)) is within one
\* scale of v, rmin' maps to qmin and rmax' maps to qmax.
C17_RoundTripEndsExact ==
    AsymRoundTripDone =>
        /\ RoundTripWithinScale
        /\ qq.double_value = qloc.cmin => qq.quant_value = qq.qmin
        /\ qq.double_value = qloc.cmax => qq.quant_value = qq.qmax

\* C17 amended: with (scale, zero_point) from asymmetric GetQuantParams and v
\* in [rmin', rmax'], Quantize converts without overflow and Dequantize of its
\* result is within one scale of v; rmin' maps to qmin or qmin + 1 and rmax'
\* maps to qmax - 1 or qmax.
C17_RoundTripEndsWithinOne ==
    AsymRoundTripDone =>
        /\ ~qq.overflow
        /\ RoundTripWithinScale
        /\ qq.double_value = qloc.cmin => qq.quant_value \in {qq.qmin, qq.qmin + 1}
        /\ qq.double_value = qloc.cmax => qq.quant_value \in {qq.qmax - 1, qq.qmax}

C17_Witness ==
    /\ AsymRoundTripDone
    /\ qout.zero_point # 0
    /\ qq.double_value = qloc.cmax
    /\ qq.quant_value = qq.qmax - 1
    /\ RoundTripWithinScale

\* the round trips of zero: parameters of either mode, 0.0 quantized and
\* dequantized
ZeroRoundTripDone ==
    /\ qpc = "dequantized"
    /\ qout.status = "OK"
    /\ qq.double_value = B32Zero

\* C18: for every supported 8- or 16-bit type, both modes and every range,
\* Quantize(0.0, scale, zero_point) with the parameters GetQuantParams returned
\* gives -zero_point without saturating, and Dequantize of it gives exactly 0.
C18_ZeroExactlyRepresentable ==
    ZeroRoundTripDone =>
        /\ ~qq.overflow
        /\ qq.cast = -qout.zero_point
        /\ qq.qmin <= qq.cast /\ qq.cast <= qq.qmax
        /\ qq.quant_value = -qout.zero_point
        /\ qd.quant_value = qq.quant_value /\ qd.offset = qout.zero_point
        /\ qd.sum = 0

C18_Witness ==
    /\ ZeroRoundTripDone
    /\ ~qin.symmetric
    /\ B32Lt(qloc.cmin, B32Zero)
    /\ qout.zero_point # 0
    /\ qq.quant_value = -qout.zero_point
    /\ qd.sum = 0

\* C18 in symmetric mode: the zero-point is 0 and zero quantizes to 0
C18_WitnessSymmetric ==
    /\ ZeroRoundTripDone
    /\ qin.symmetric
    /\ B32Lt(qloc.rmin, B32Zero)
    /\ qout.zero_point = 0
    /\ qq.quant_value = 0
    /\ qd.sum = 0

\* the blocks, scales, zero-points and destinations the threads hold
ThreadState == [blob |-> tblob, scale |-> tscale, zp |-> tzp, dst |-> tdst]

\* what the threads held before the first call
ThreadStateBefore ==
    [blob |-> [t \in Threads |-> BlobBefore], scale |-> [t \in Threads |-> Zero],
     zp |-> [t \in Threads |-> 0], dst |-> [t \in Threads |-> DstBefore]]

\* the whole quant call of thread t, in the overload it chose, run on st
SeqQuant(st, t) ==
    IF tmode[t] = "zp"
    THEN [st EXCEPT
             !.blob[t] = QuantZpResult(st.blob[t], src, SrcBase(N, Kidx(t), col),
                                       N, Kidx(t), K).main_blob,
             !.scale[t] = QuantZpResult(st.blob[t], src, SrcBase(N, Kidx(t), col),
                                        N, Kidx(t), K).scale,
             !.zp[t] = QuantZpResult(st.blob[t], src, SrcBase(N, Kidx(t), col),
                                     N, Kidx(t), K).zp]
    ELSE [st EXCEPT
             !.blob[t] = QuantSymResult(st.blob[t], src, SrcBase(N, Kidx(t), col),
                                        N, Kidx(t), K).main_blob,
             !.scale[t] = QuantSymResult(st.blob[t], src, SrcBase(N, Kidx(t), col),
                                         N, Kidx(t), K).scale]

\* the whole dequant call of thread t run on st
SeqDequant(st, t) ==
    IF tmode[t] = "zp"
    THEN [st EXCEPT !.dst[t] = Dequant(@, st.blob[t], st.scale[t], st.zp[t], Kidx(t), K)]
    ELSE [st EXCEPT !.dst[t] = DequantDefault(@, st.blob[t], st.scale[t], Kidx(t), K)]

\* the calls run one after another in the order o of thread ids, from its
\* position k on; called[t] tells whether t has run its quant
RECURSIVE SeqRun(_, _, _, _)
SeqRun(o, k, st, called) ==
    IF k > Len(o) THEN st
    ELSE IF called[o[k]]
    THEN SeqRun(o, k + 1, SeqDequant(st, o[k]), called)
    ELSE SeqRun(o, k + 1, SeqQuant(st, o[k]), [called EXCEPT ![o[k]] = TRUE])

\* the orders in which the two calls of every thread can follow one another
SeqOrders ==
    {o \in [1..(2 * Cardinality(Threads)) -> Threads] :
        \A t \in Threads : Cardinality({k \in DOMAIN o : o[k] = t}) = 2}

AllDone == \A t \in Threads : tpc[t] = "done"

\* a step changes the block, scale, zero-point and destination of one thread
\* at most, and never the source matrix
OwnStateOnly ==
    /\ src' = src
    /\ \E t \in Threads : \A u \in Threads \ {t} :
          /\ tblob'[u] = tblob[u] /\ tscale'[u] = tscale[u]
          /\ tzp'[u] = tzp[u] /\ tdst'[u] = tdst[u]

\* C19: when threads run quant and dequant concurrently, each on its own
\* block, scale, zero-point and destination, every interleaving ends in the
\* blocks, scales, zero-points and destinations that running the same calls
\* one after another gives, in whatever order, and no step writes the source
\* matrix or what another thread owns.
C19_DisjointBlocksThreadSafe ==
    /\ [](AllDone => \A o \in SeqOrders :
              ThreadState = SeqRun(o, 1, ThreadStateBefore, [t \in Threads |-> FALSE]))
    /\ [][OwnStateOnly]_vars

C19_Witness ==
    /\ AllDone
    /\ tmixed
    /\ tmode[1] # tmode[2]
    /\ tscale[1] # tscale[2]
    /\ tblob[1] # tblob[2]
    /\ ThreadState = SeqRun(<<2, 1, 1, 2>>, 1, ThreadStateBefore, [t \in Threads |-> FALSE])

\* the block type has been set up: its instantiation was accepted or rejected
TypeSetUp == bpc \in {"instantiated", "built", "processed"} \/ berr = "static_assert"

BadBlockSize == cfg.bits \in 3..7 /\ cfg.block_size % 8 # 0
BadBits == cfg.bits \notin 3..7

\* C20 as stated: for bits 3 to 7 a block_size that is not a multiple of 8 is
\* rejected when the block type is set up, and so is a bit width outside 3..7.
C20_RejectedAtSetup ==
    /\ (TypeSetUp /\ BadBlockSize) => (bpc = "rejected" /\ berr = "static_assert")
    /\ (TypeSetUp /\ BadBits) => bpc = "rejected"
    /\ bpc = "processed" => (~BadBlockSize /\ ~BadBits)

\* C20 amended: for bits 3 to 7 a block_size that is not a multiple of 8 is
\* rejected by the static_assert when the block type is set up; a bit width
\* outside 3..7 passes the setup whatever block_size is and is rejected only
\* where quant or dequant is called, for want of a definition; either way no
\* block is processed.
C20_RejectedBeforeProcessing ==
    /\ (TypeSetUp /\ BadBlockSize) => (bpc = "rejected" /\ berr = "static_assert")
    /\ (TypeSetUp /\ BadBits) =>
          \/ bpc = "instantiated" /\ berr = "none"
          \/ bpc = "rejected" /\ berr = "no_definition"
    /\ bpc \in {"built", "processed"} => (~BadBlockSize /\ ~BadBits)

C20_Witness ==
    /\ BadBits
    /\ cfg.block_size % 8 # 0
    /\ bpc = "rejected"
    /\ berr = "no_definition"

\* C20, the static_assert at work: bits = 5 with block_size 12
C20_WitnessStaticAssert ==
    /\ cfg.bits = 5
    /\ cfg.block_size = 12
    /\ bpc = "rejected"
    /\ berr = "static_assert"

\* the largest integer not above the finite float x
FloorF(x) == x[1] \div x[2]

\* C21 as stated: in symmetric quant with a non-zero scale every valid
\* source value v is stored as round(v / scale + 8.5) saturated into [0, 15].
C21_SymCodeRoundsSum ==
    (Quantized /\ mode = "sym" /\ scale # Zero) =>
        \A i \in ValidPos :
            NibbleAt(main_blob, i) =
                Sat15(NearestIn(FAdd(FDiv(SrcElem(i), scale), Frac(17, 2)),
                                (-1)..18))

\* C21 amended: the stored code is the sum v * (1 / scale) + 8.5 saturated
\* into [0, 15] with its fraction discarded (no rounding of the sum), so a
\* source value 0.0 is stored as 8.
C21_SymCodeTruncatesSum ==
    (Quantized /\ mode = "sym" /\ scale # Zero) =>
        \A i \in ValidPos :
            LET x == FMul(SrcElem(i), FDiv(FInt(1), scale))
            IN  /\ NibbleAt(main_blob, i) = Sat15(FloorF(FAdd(x, Frac(17, 2))))
                /\ SrcElem(i) = Zero => NibbleAt(main_blob, i) = 8

C21_Witness ==
    /\ Quantized
    /\ mode = "sym"
    /\ scale # Zero
    /\ \E i \in ValidPos : NibbleAt(main_blob, i) = 15 /\ SrcElem(i) # Zero
    /\ \E i \in ValidPos : NibbleAt(main_blob, i) = 8 /\ SrcElem(i) = Zero
    /\ \E i \in ValidPos : NibbleAt(main_blob, i) = 0

\* GetQuantParams has returned OK for a symmetric request
SymmetricParams == qpc = "params" /\ qin.symmetric /\ qout.status = "OK"
\* max(|rmin'|, |rmax'|) of the range CheckMinMax returned
AbsMaxOfClamped ==
    IF B32Lt(B32Abs(qloc.cmin), B32Abs(qloc.cmax))
    THEN B32Abs(qloc.cmax) ELSE B32Abs(qloc.cmin)

\* C22: with symmetric = true the range used is [-absmax, absmax] with
\* absmax the larger magnitude of the clamped range ends,
\* scale = 2 * absmax / (qmax - qmin), and the returned zero_point is the
\* negation of round((rmin + rmax) / 2) saturated into [qmin, qmax], which
\* is 0 for signed and unsigned types alike.
C22_SymmetricParams ==
    SymmetricParams =>
        /\ qloc.rmin = B32Neg(AbsMaxOfClamped)
        /\ qloc.rmax = AbsMaxOfClamped
        /\ qout.scale = B32Div(B32Add(AbsMaxOfClamped, AbsMaxOfClamped),
                               B32Sub(qloc.qmax, qloc.qmin))
        /\ qout.zero_point =
               -ToInt32(RoundHalfToEven(Saturate(qloc.qmax, qloc.qmin,
                   B32StdRound(B32Div(B32Add(qloc.rmin, qloc.rmax), B32FromInt(2))))))
        /\ qout.zero_point = 0

C22_Witness ==
    /\ SymmetricParams
    /\ qin.qnn_data_type = "QNN_DATATYPE_UFIXED_POINT_8"
    /\ qloc.cmin # B32Neg(qloc.cmax)
    /\ B32Lt(qloc.cmin, B32Zero)
    /\ B32Lt(B32Abs(qloc.cmax), B32Abs(qloc.cmin))
    /\ qout.zero_point = 0
    /\ B32Lt(B32Zero, qout.scale)

\* the block objects alive
LiveBlocks == {s \in 1..MaxBlocks : blocks[s] # NoBlock}
\* the buffer of b has block_size * bits / 8 bytes
SizedByWidth(b) == b.size * 8 = b.block_size * b.bits
\* the planes of b lie one after the other from byte 0 to the end of the
\* buffer, plane j taking block_size * PlaneBits[j] / 8 bytes
PlanesPartition(b) ==
    LET w   == PlaneBits(b.bits)
        len == [j \in 1..Len(w) |-> (b.block_size * w[j]) \div 8]
    IN  b.bits # 4 =>
            /\ Len(b.planes) = Len(w)
            /\ b.planes[1].off = 0
            /\ \A j \in 1..(Len(w) - 1) :
                  b.planes[j + 1].off = b.planes[j].off + len[j]
            /\ b.planes[Len(w)].off + len[Len(w)] = b.size
\* every plane pointer of the block in storage s points into its own buffer
OwnPlanes(s) == \A j \in 1..Len(blocks[s].planes) : blocks[s].planes[j].obj = s

\* C23: every block of width 3..7 has a buffer of block_size * b / 8 bytes,
\* its bit-planes are disjoint, contiguous and cover the buffer, and in every
\* reachable state, also after a copy or move, each plane view of a block
\* refers to that block's own buffer.
C23_BlockLayout ==
    \A s \in LiveBlocks :
        /\ SizedByWidth(blocks[s])
        /\ PlanesPartition(blocks[s])
        /\ OwnPlanes(s)

\* the part of C23 that holds: sizes and plane boundaries of every block,
\* and own planes for a block that was constructed and never assigned to
C23_LayoutOfSizes ==
    \A s \in LiveBlocks : SizedByWidth(blocks[s]) /\ PlanesPartition(blocks[s])

\* a copy whose plane pointers refer to the buffer of the block copied from
C23_CopyAliasesSource ==
    \E s \in LiveBlocks : \E t \in LiveBlocks :
        /\ s # t
        /\ blocks[t].bits = 7
        /\ \A j \in 1..3 : blocks[t].planes[j].obj = s

C24_WitnessReversed ==
    /\ Len(gout) = 2
    /\ B32Lt(gin.rmax, gin.rmin)
    /\ B32Lt(gin.rmax, B32Zero)
    /\ B32Lt(B32Zero, gout[2].scale)

\* the bounds GetQminQmax gives for the type of the calls
ParamBounds == GetQminQmax(gin.qnn_data_type, 0, 255)

\* C29: for every supported type, signed 32-bit fixed point included, and
\* every range handed in, the conversion of the saturated, rounded zero-point
\* to int32 and the negation 0 - zero_point do not overflow, and the returned
\* zero_point lies in [-qmax, -qmin].
C29_ZeroPointFitsInt32 ==
    \A i \in 1..Len(gout) :
        /\ gout[i].cast_defined
        /\ gout[i].negation_defined
        /\ gout[i].zero_point >= -ParamBounds.qmax
        /\ ParamBounds.qmin # IntMin => gout[i].zero_point <= -ParamBounds.qmin

\* the part of C29 that holds: the 8- and 16-bit types
C29_NarrowTypesFit ==
    \A i \in 1..Len(gout) :
        gin.qnn_data_type # "QNN_DATATYPE_SFIXED_POINT_32" =>
            /\ gout[i].cast_defined
            /\ gout[i].negation_defined
            /\ gout[i].zero_point >= -ParamBounds.qmax
            /\ gout[i].zero_point <= -ParamBounds.qmin

\* 32-bit type, range [-1, 0]: the saturated zero-point is 2^31
C29_CastOverflows ==
    /\ Len(gout) = 1
    /\ gin.qnn_data_type = "QNN_DATATYPE_SFIXED_POINT_32"
    /\ ~gin.symmetric
    /\ gin.rmin = B32FromInt(-1)
    /\ gin.rmax = B32Zero
    /\ gout[1].rounded = <<1, 31>>
    /\ ~gout[1].cast_defined

\* 32-bit type, range [0, 1]: the zero-point is INT_MIN and 0 - INT_MIN
\* overflows
C29_NegationOverflows ==
    /\ Len(gout) = 1
    /\ gin.qnn_data_type = "QNN_DATATYPE_SFIXED_POINT_32"
    /\ ~gin.symmetric
    /\ gin.rmin = B32Zero
    /\ gin.rmax = B32FromInt(1)
    /\ gout[1].rounded = <<-1, 31>>
    /\ gout[1].cast_defined
    /\ ~gout[1].negation_defined
    /\ gub.neg = IntMin
    /\ gout[1].zero_point = IntMin

\* the valid positions of the last quant call whose source value is 0.0
ZeroPos == {i \in ValidPos : SrcElem(i) = Zero}

C25_WitnessSymmetric ==
    /\ RoundTripSym
    /\ scale # Zero
    /\ \E i \in ZeroPos : NibbleAt(main_blob, i) = 8 /\ dst[i] = Zero /\ dst_in[i] # Zero
    /\ \E i \in ValidPos : dst[i] # Zero

ReadPos == {(k_idx * N + col) + N * kk : kk \in ValidPos}
\* a buffer holding other bytes than the one the call was made on
OtherBlob == [j \in 0..(block_size \div 2 - 1) |-> 90]
\* the last quant call made again on buffer blob and source matrix other
QuantAgain(blob, other) ==
    IF mode = "zp"
    THEN QuantZpResult(blob, other, SrcBase(N, k_idx, col), N, k_idx, K)
    ELSE QuantSymResult(blob, other, SrcBase(N, k_idx, col), N, k_idx, K)
\* r gives the scale, the zero-point and the codes of the valid positions
\* that the last quant call gave
SameOutputs(r) ==
    /\ r.scale = scale
    /\ mode = "zp" => r.zp = zp
    /\ \A i \in ValidPos : NibbleAt(r.main_blob, i) = NibbleAt(main_blob, i)

\* values of larger magnitude than any the source matrix holds
Louder == {FInt(-(MaxVal + 1)), FInt(MaxVal + 1)}
\* source matrices that agree with src on ReadPos: every other element
\* replaced by v, or one element next to the block replaced by v (the one
\* before the first element read, the one after it, and the element the
\* loop would read next)
Disagreeing ==
    {[j \in DOMAIN src |-> IF j \in ReadPos THEN src[j] ELSE v] : v \in Louder}
        \cup {[src EXCEPT ![j] = v] :
                 j \in ({(k_idx * N + col) - 1, (k_idx * N + col) + 1,
                         (k_idx * N + col) + N * LastKlen}
                            \cap DOMAIN src) \ ReadPos,
                 v \in Louder}

\* C27: for k_idx < K both quant overloads read only the klen source elements
\* src[N * kk] of their block and write only bytes of index < block_size / 2,
\* so a source matrix that differs in other elements, and a buffer that held
\* other bytes, give the same scale, zero-point and codes at the positions
\* < klen.
C27_BlockIndependence ==
    pc = "quantized" =>
        /\ k_idx < K
        /\ ReadPos \subseteq DOMAIN src
        /\ \A kk \in ValidPos : kk \div 2 < block_size \div 2
        /\ DOMAIN main_blob = 0..(block_size \div 2 - 1)
        /\ \A other \in Disagreeing : SameOutputs(QuantAgain(OtherBlob, other))

C27_Witness ==
    /\ pc = "quantized"
    /\ N = MaxN
    /\ k_idx > 0
    /\ LastKlen > 1
    /\ LastKlen < block_size
    /\ scale # Zero
    /\ Cardinality(Disagreeing) = 6
    /\ \A other \in Disagreeing :
          /\ other # src
          /\ SameOutputs(QuantAgain(OtherBlob, other))

\* a block as its creation leaves it
FreshBlobs == {[j \in 0..(block_size \div 2 - 1) |-> g] : g \in GarbageBytes}
\* the step is a quant call with the arguments of the call before it
SameCallAgain ==
    /\ pc = "quantized"
    /\ pc' = "quantized"
    /\ mode' = mode
    /\ k_idx' = k_idx
    /\ K' = K
    /\ col' = col

\* C28: after any sequence of quant calls on one block object the scale, the
\* zero-point and the codes at the positions < klen are those the last call
\* alone gives on a freshly created block, and a quant call repeated with the
\* same arguments leaves the block and the outputs as they are.
C28_NoStateCarried ==
    /\ [](pc = "quantized" =>
             \A fresh \in FreshBlobs : SameOutputs(QuantAgain(fresh, src)))
    /\ [][SameCallAgain =>
             main_blob' = main_blob /\ scale' = scale /\ zp' = zp]_vars

\* the block was used before the last call, which wrote fewer bytes than the
\* calls before it: the bytes it left alone differ from those of a fresh block
C28_Witness ==
    /\ pc = "quantized"
    /\ mode = "sym"
    /\ zp # 0
    /\ blob_in \notin FreshBlobs
    /\ LastKlen < block_size - 1
    /\ scale # Zero
    /\ \A fresh \in FreshBlobs :
          /\ main_blob # QuantAgain(fresh, src).main_blob
          /\ SameOutputs(QuantAgain(fresh, src))

\* the calls that have returned
Returned == {t \in Threads : acall[t].pc = "idle" /\ acall[t].ret # 0}
\* at most one allocator was created per device id, and every call that has
\* returned returned the allocator created first for its id
OneAllocatorEach ==
    /\ \A d \in DeviceIds : created[d] <= 1
    /\ \A t \in Returned : acall[t].ret = 1 /\ amap[acall[t].id] = 1
\* no entry of the map is removed by the step
EntriesKept == \A d \in DeviceIds : amap[d] # 0 => amap'[d] # 0

\* C30 as stated: at most one allocator is created per device id, every call
\* returns the allocator created by the first call with its id, also when
\* two threads call concurrently with an id that has no entry yet.
C30_OneAllocatorPerDevice == OneAllocatorEach

\* C30 amended: as long as the calls are made one at a time, at most one
\* allocator is created per device id, every call returns the allocator the
\* first call with its id created, and no entry is removed from the map.
C30_OneAllocatorWhenSequential ==
    /\ [](~overlapped => OneAllocatorEach)
    /\ [][~overlapped' => EntriesKept]_vars

\* calls one at a time: a second thread is handed the allocator the first
\* thread's call created, and the other device has its own
C30_Witness ==
    /\ ~overlapped
    /\ Returned = Threads
    /\ acall[1].id = acall[2].id
    /\ \A d \in DeviceIds : created[d] = 1 /\ amap[d] = 1
    /\ \A t \in Threads : acall[t].ret = 1

\* two threads inside the function for the same id both created an allocator
C30_WitnessConcurrent ==
    /\ overlapped
    /\ \E d \in DeviceIds : created[d] = 2

====
